---- MODULE Spec2Model ----
(***************************************************************************)
(* A model of compiler/rustc_span/src/lib.rs: the span algebra of Span /   *)
(* SpanData (contains, overlaps, to, between, until, split_at, Ord) and    *)
(* the stable hashing of spans (impl HashStable for Span).                 *)
(***************************************************************************)
EXTENDS Integers, Sequences, FiniteSets, TLC

(* ------------------------------ bounds --------------------------------- *)
\* largest byte position of a span operand
MaxPos == 3
\* largest syntax context id (0 is the root context)
MaxCtxt == 2
\* largest LocalDefId used as a span parent
MaxDef == 2
\* largest start_pos at which the hashed span's file is loaded
MaxStart == 2
\* source_len of the hashed span's file
FileLen == 3
\* largest number of lines of an encoded line table
MaxLines == 3
\* how many times a SourceFile is decoded from what was encoded
MaxDecodes == 2
\* how many threads call into one SourceFile at the same time
NumThreads == 2
\* how many add_external_src calls are made on one SourceFile in a row
MaxCalls == 3
\* how deep the closures passed to the session functions are nested
MaxDepth == 3
\* how many SessionGlobals are created on the thread
MaxGlobals == 2
\* how many different source maps are installed
MaxMaps == 2
\* how many panics are raised and caught on the thread
MaxFails == 2
\* longest text, in bytes after its BOM, given to SourceFile::new
MaxTextLen == 4
\* longest text, in characters, whose positions are looked up
MaxChars == 3
\* largest source_len of a file given by its line table alone
MaxTableLen == 3
\* largest byte position of a macro call site
MaxSite == 2

(* --------------------------- span data model --------------------------- *)
\* Option::None for `parent: Option<LocalDefId>`
None == 0

\* SyntaxContext::root()
root == 0

\* SyntaxContext::is_root
is_root(ctxt) == ctxt = root

\* struct SpanData { lo, hi, ctxt, parent }
SpanData == [lo : 0..MaxPos, hi : 0..MaxPos, ctxt : 0..MaxCtxt, parent : 0..MaxDef]

\* the spans a program can hold: Span::new keeps lo <= hi
Spans == {s \in SpanData : s.lo <= s.hi}

min(x, y) == IF x <= y THEN x ELSE y

max(x, y) == IF x >= y THEN x ELSE y

\* Span::new(lo, hi, ctxt, parent): the positions are put in order
SpanNew(lo, hi, ctxt, parent) ==
    [lo |-> min(lo, hi), hi |-> max(lo, hi), ctxt |-> ctxt, parent |-> parent]

\* the dummy span DUMMY_SP
DUMMY_SP == [lo |-> 0, hi |-> 0, ctxt |-> root, parent |-> None]

\* SpanData::is_dummy
is_dummy(span) == span.lo = 0 /\ span.hi = 0

\* SpanData::contains / Span::contains
contains(span, other) == span.lo <= other.lo /\ other.hi <= span.hi

\* overlaps with one closed end
overlaps_closed(span, other) == span.lo <= other.hi /\ other.lo < span.hi

\* Span::overlaps
overlaps(span, other) == span.lo < other.hi /\ other.lo < span.hi

\* Span::source_equal
source_equal(span, other) == span.lo = other.lo /\ span.hi = other.hi

\* Ord for a pair of u32 values
cmp_u32(x, y) == IF x < y THEN "Less" ELSE IF x > y THEN "Greater" ELSE "Equal"

\* cmp with `parent` as a fourth key
cmp_with_parent(s, o) ==
    IF cmp_u32(s.lo, o.lo) # "Equal" THEN cmp_u32(s.lo, o.lo)
    ELSE IF cmp_u32(s.hi, o.hi) # "Equal" THEN cmp_u32(s.hi, o.hi)
    ELSE IF cmp_u32(s.ctxt, o.ctxt) # "Equal" THEN cmp_u32(s.ctxt, o.ctxt)
    ELSE cmp_u32(s.parent, o.parent)

\* impl Ord for SpanData: (s_lo, s_hi, s_ctxt).cmp(&(o_lo, o_hi, o_ctxt))
cmp(s, o) ==
    IF cmp_u32(s.lo, o.lo) # "Equal" THEN cmp_u32(s.lo, o.lo)
    ELSE IF cmp_u32(s.hi, o.hi) # "Equal" THEN cmp_u32(s.hi, o.hi)
    ELSE cmp_u32(s.ctxt, o.ctxt)

\* derived PartialEq for SpanData: all four fields
eq(s, o) == s.lo = o.lo /\ s.hi = o.hi /\ s.ctxt = o.ctxt /\ s.parent = o.parent

\* split_at that drops the parent of the right half
split_at_no_parent(span, pos) ==
    LET split_pos == span.lo + pos
    IN  << SpanNew(span.lo, split_pos, span.ctxt, span.parent),
           SpanNew(split_pos, span.hi, span.ctxt, None) >>

\* Span::split_at
split_at(span, pos) ==
    LET split_pos == span.lo + pos
    IN  << SpanNew(span.lo, split_pos, span.ctxt, span.parent),
           SpanNew(split_pos, span.hi, span.ctxt, span.parent) >>

\* to that ends where the first operand to end ends
to_min_hi(span_data, end_data) ==
    IF span_data.ctxt # end_data.ctxt /\ is_root(span_data.ctxt) THEN end_data
    ELSE IF span_data.ctxt # end_data.ctxt /\ is_root(end_data.ctxt) THEN span_data
    ELSE SpanNew(min(span_data.lo, end_data.lo),
                 min(span_data.hi, end_data.hi),
                 IF is_root(span_data.ctxt) THEN end_data.ctxt ELSE span_data.ctxt,
                 IF span_data.parent = end_data.parent THEN span_data.parent ELSE None)

\* to that tests `end` for the root context, as between and until do
to_end_ctxt(span_data, end_data) ==
    IF span_data.ctxt # end_data.ctxt /\ is_root(span_data.ctxt) THEN end_data
    ELSE IF span_data.ctxt # end_data.ctxt /\ is_root(end_data.ctxt) THEN span_data
    ELSE SpanNew(min(span_data.lo, end_data.lo),
                 max(span_data.hi, end_data.hi),
                 IF is_root(end_data.ctxt) THEN span_data.ctxt ELSE end_data.ctxt,
                 IF span_data.parent = end_data.parent THEN span_data.parent ELSE None)

\* Span::to
to(span_data, end_data) ==
    IF span_data.ctxt # end_data.ctxt /\ is_root(span_data.ctxt) THEN end_data
    ELSE IF span_data.ctxt # end_data.ctxt /\ is_root(end_data.ctxt) THEN span_data
    ELSE SpanNew(min(span_data.lo, end_data.lo),
                 max(span_data.hi, end_data.hi),
                 IF is_root(span_data.ctxt) THEN end_data.ctxt ELSE span_data.ctxt,
                 IF span_data.parent = end_data.parent THEN span_data.parent ELSE None)

\* Span::between
between(span, end) ==
    SpanNew(span.hi,
            end.lo,
            IF is_root(end.ctxt) THEN end.ctxt ELSE span.ctxt,
            IF span.parent = end.parent THEN span.parent ELSE None)

\* until that runs to the end of `end`, as `to` does
until_to_hi(span_data, end_data) ==
    IF span_data.ctxt # end_data.ctxt /\ is_root(span_data.ctxt) THEN end_data
    ELSE IF span_data.ctxt # end_data.ctxt /\ is_root(end_data.ctxt) THEN span_data
    ELSE SpanNew(span_data.lo,
                 end_data.hi,
                 IF is_root(end_data.ctxt) THEN end_data.ctxt ELSE span_data.ctxt,
                 IF span_data.parent = end_data.parent THEN span_data.parent ELSE None)

\* Span::until
until(span_data, end_data) ==
    IF span_data.ctxt # end_data.ctxt /\ is_root(span_data.ctxt) THEN end_data
    ELSE IF span_data.ctxt # end_data.ctxt /\ is_root(end_data.ctxt) THEN span_data
    ELSE SpanNew(span_data.lo,
                 end_data.lo,
                 IF is_root(end_data.ctxt) THEN end_data.ctxt ELSE span_data.ctxt,
                 IF span_data.parent = end_data.parent THEN span_data.parent ELSE None)

(* --------------------------- macro backtrace --------------------------- *)
\* ExpnData: the expansion it describes (0 for the root expansion) and its
\* call site
ExpnData(expn, call_site) == [expn |-> expn, call_site |-> call_site]

\* SyntaxContext::outer_expn_data over the table of the expansions
outer_expn_data(expn_table, ctxt) ==
    IF is_root(ctxt) THEN ExpnData(0, DUMMY_SP) ELSE ExpnData(ctxt, expn_table[ctxt])

expn_is_root(expn_data) == expn_data.expn = 0

\* one call of the closure of macro_backtrace: the loop runs until it
\* returns; item is empty for None
RECURSIVE macro_backtrace_next(_, _, _)
macro_backtrace_next(expn_table, span, prev_span) ==
    LET expn_data == outer_expn_data(expn_table, span.ctxt)
        is_recursive == source_equal(expn_data.call_site, prev_span)
    IN  IF expn_is_root(expn_data)
        THEN [item |-> << >>, span |-> span, prev_span |-> prev_span]
        ELSE IF ~is_recursive
        THEN [item |-> << expn_data >>, span |-> expn_data.call_site, prev_span |-> span]
        ELSE macro_backtrace_next(expn_table, expn_data.call_site, span)

(* --------------------------- span encoding ----------------------------- *)
\* encode_span that writes hi before lo
encode_span_hi_first(span) == << span.hi, span.lo >>

\* SpanEncoder::encode_span for FileEncoder: the u32 values emitted, in order
encode_span(span) == << span.lo, span.hi >>

\* SpanDecoder::decode_span for MemDecoder: reads two u32 values
decode_span(d) == SpanNew(d[1], d[2], root, None)

(* ------------------------- source file lookups ------------------------- *)
\* Option::None for `Option<usize>` line indices
NoLine == -1

\* slice::partition_point(|x| x <= &pos), by binary search between left and right
RECURSIVE partition_point(_, _, _, _)
partition_point(lines, pos, left, right) ==
    IF left < right
    THEN LET mid == left + ((right - left) \div 2)
         IN  IF lines[mid + 1] <= pos
             THEN partition_point(lines, pos, mid + 1, right)
             ELSE partition_point(lines, pos, left, mid)
    ELSE left

\* SourceFile::lookup_line: partition_point(..).checked_sub(1)
lookup_line(lines, pos) ==
    LET n == partition_point(lines, pos, 0, Len(lines))
    IN  IF n = 0 THEN NoLine ELSE n - 1

\* SourceFile::absolute_position
absolute_position(f, pos) == pos + f.start_pos

\* SourceFile::relative_position
relative_position(f, pos) == pos - f.start_pos

\* SourceFile::end_position
end_position(f) == absolute_position(f, f.source_len)

\* SourceFile::contains
file_contains(f, byte_pos) == byte_pos >= f.start_pos /\ byte_pos <= end_position(f)

is_empty(f) == f.source_len = 0

\* line_bounds that gives every line the end of the file as its end
line_bounds_to_end(f, line_index) ==
    IF is_empty(f) THEN [lo |-> f.start_pos, hi |-> f.start_pos, panic |-> "none"]
    ELSE IF ~(line_index < Len(f.lines))
    THEN [lo |-> 0, hi |-> 0, panic |-> "assert line_index < lines.len()"]
    ELSE [lo |-> absolute_position(f, f.lines[line_index + 1]),
          hi |-> end_position(f), panic |-> "none"]

\* SourceFile::line_bounds
line_bounds(f, line_index) ==
    IF is_empty(f) THEN [lo |-> f.start_pos, hi |-> f.start_pos, panic |-> "none"]
    ELSE IF ~(line_index < Len(f.lines))
    THEN [lo |-> 0, hi |-> 0, panic |-> "assert line_index < lines.len()"]
    ELSE IF line_index = Len(f.lines) - 1
    THEN [lo |-> absolute_position(f, f.lines[line_index + 1]),
          hi |-> end_position(f), panic |-> "none"]
    ELSE [lo |-> absolute_position(f, f.lines[line_index + 1]),
          hi |-> absolute_position(f, f.lines[line_index + 2]), panic |-> "none"]

(* ------------------------ lines and columns ---------------------------- *)
MultiByteChar(pos, bytes) == [pos |-> pos, bytes |-> bytes]

\* NonNarrowChar::new and NonNarrowChar::width: the variant is held as its
\* width, 0 for ZeroWidth, 2 for Wide, 4 for Tab
NonNarrowChar(pos, width) == [pos |-> pos, width |-> width]

\* the loop of bytepos_to_file_charpos over the first i multibyte characters
RECURSIVE total_extra_bytes(_, _, _)
total_extra_bytes(multibyte_chars, bpos, i) ==
    IF i > Len(multibyte_chars) \/ ~(multibyte_chars[i].pos < bpos)
    THEN [extra |-> 0, panic |-> "none"]
    ELSE IF ~(bpos >= multibyte_chars[i].pos + multibyte_chars[i].bytes)
    THEN [extra |-> 0, panic |-> "assert bpos >= mbc.pos + mbc.bytes"]
    ELSE LET r == total_extra_bytes(multibyte_chars, bpos, i + 1)
         IN  [extra |-> r.extra + (multibyte_chars[i].bytes - 1), panic |-> r.panic]

bytepos_to_file_charpos(f, bpos) ==
    LET r == total_extra_bytes(f.multibyte_chars, bpos, 1)
    IN  IF r.panic # "none" THEN [chpos |-> 0, panic |-> r.panic]
        ELSE IF ~(r.extra <= bpos) THEN [chpos |-> 0, panic |-> "assert total_extra_bytes <= bpos"]
        ELSE [chpos |-> bpos - r.extra, panic |-> "none"]

lookup_file_pos(f, pos) ==
    LET chpos == bytepos_to_file_charpos(f, pos)
        a     == lookup_line(f.lines, pos)
    IN  IF chpos.panic # "none" THEN [line |-> 0, col |-> 0, panic |-> chpos.panic]
        ELSE IF a = NoLine THEN [line |-> 0, col |-> chpos.chpos, panic |-> "none"]
        ELSE LET linechpos == bytepos_to_file_charpos(f, f.lines[a + 1])
             IN  IF linechpos.panic # "none"
                 THEN [line |-> 0, col |-> 0, panic |-> linechpos.panic]
                 ELSE IF ~(chpos.chpos >= linechpos.chpos)
                 THEN [line |-> 0, col |-> 0, panic |-> "assert chpos >= linechpos"]
                 ELSE [line |-> a + 1, col |-> chpos.chpos - linechpos.chpos,
                       panic |-> "none"]

\* binary_search_by_key(&key, |x| x.pos()).unwrap_or_else(|x| x) over
\* characters at increasing positions: how many of them stand before key
width_idx(non_narrow_chars, key) ==
    Cardinality({i \in 1..Len(non_narrow_chars) : non_narrow_chars[i].pos < key})

\* the sum of the widths of non_narrow_chars[from..to]
RECURSIVE width_sum(_, _, _)
width_sum(non_narrow_chars, from_idx, to_idx) ==
    IF from_idx >= to_idx THEN 0
    ELSE non_narrow_chars[from_idx + 1].width
             + width_sum(non_narrow_chars, from_idx + 1, to_idx)

\* lookup_file_pos_with_col_display that adds the widths without taking the
\* counted characters out
lookup_file_pos_with_col_display_added(f, abs_pos) ==
    LET pos == relative_position(f, abs_pos)
        lc  == lookup_file_pos(f, pos)
        start_width_idx == IF lc.line > 0 THEN width_idx(f.non_narrow_chars, f.lines[lc.line])
                           ELSE 0
        end_width_idx == width_idx(f.non_narrow_chars, pos)
    IN  IF lc.panic # "none"
        THEN [line |-> 0, col |-> 0, col_display |-> 0, panic |-> lc.panic]
        ELSE [line |-> lc.line, col |-> lc.col,
              col_display |-> lc.col + width_sum(f.non_narrow_chars, start_width_idx,
                                                 end_width_idx),
              panic |-> "none"]

lookup_file_pos_with_col_display(f, abs_pos) ==
    LET pos == relative_position(f, abs_pos)
        lc  == lookup_file_pos(f, pos)
    IN  IF lc.panic # "none"
        THEN [line |-> 0, col |-> 0, col_display |-> 0, panic |-> lc.panic]
        ELSE IF lc.line > 0
        THEN LET linebpos == f.lines[lc.line]
                 start_width_idx == width_idx(f.non_narrow_chars, linebpos)
                 end_width_idx == width_idx(f.non_narrow_chars, pos)
                 special_chars == end_width_idx - start_width_idx
                 non_narrow == width_sum(f.non_narrow_chars, start_width_idx, end_width_idx)
             IN  [line |-> lc.line, col |-> lc.col,
                  col_display |-> lc.col - special_chars + non_narrow, panic |-> "none"]
        ELSE LET end_width_idx == width_idx(f.non_narrow_chars, pos)
                 non_narrow == width_sum(f.non_narrow_chars, 0, end_width_idx)
             IN  [line |-> 0, col |-> lc.col,
                  col_display |-> lc.col - end_width_idx + non_narrow, panic |-> "none"]

\* a character of a text: its length in UTF-8, its display width and whether
\* it ends a line
Char(bytes, width, newline) == [bytes |-> bytes, width |-> width, newline |-> newline]

\* the byte offset of the i-th character of a text, counted from 1; for
\* i = Len(chars) + 1 the length of the text
RECURSIVE offset_of(_, _)
offset_of(chars, i) == IF i <= 1 THEN 0 ELSE offset_of(chars, i - 1) + chars[i - 1].bytes

\* analyze_source_file: the three tables of a text, from one scan
analyze_source_file(chars) ==
    LET idx == 1..Len(chars)
        len == offset_of(chars, Len(chars) + 1)
        pick(S) == [k \in 1..Cardinality(S) |->
                       CHOOSE i \in S : Cardinality({j \in S : j < i}) = k - 1]
        nl == pick({i \in idx : chars[i].newline /\ offset_of(chars, i + 1) < len})
        mb == pick({i \in idx : chars[i].bytes >= 2})
        nn == pick({i \in idx : chars[i].width # 1})
    IN  [lines |-> << 0 >> \o [k \in 1..Len(nl) |-> offset_of(chars, nl[k] + 1)],
         multibyte_chars |-> [k \in 1..Len(mb) |->
                                 MultiByteChar(offset_of(chars, mb[k]), chars[mb[k]].bytes)],
         non_narrow_chars |-> [k \in 1..Len(nn) |->
                                  NonNarrowChar(offset_of(chars, nn[k]), chars[nn[k]].width)]]

(* --------------------------- 64-bit words ------------------------------ *)
\* a u64 is held as its eight bytes, least significant first;
\* `n as u64` for a value below 2^31
RECURSIVE to_bytes(_, _)
to_bytes(n, count) ==
    IF count = 0 THEN << >> ELSE << n % 256 >> \o to_bytes(n \div 256, count - 1)

as_u64(n) == to_bytes(n, 8)

\* x & y on bytes
RECURSIVE and8(_, _, _)
and8(x, y, bits) ==
    IF bits = 0 THEN 0
    ELSE (IF x % 2 = 1 /\ y % 2 = 1 THEN 1 ELSE 0) + 2 * and8(x \div 2, y \div 2, bits - 1)

\* x | y on bytes
RECURSIVE or8(_, _, _)
or8(x, y, bits) ==
    IF bits = 0 THEN 0
    ELSE (IF x % 2 = 1 \/ y % 2 = 1 THEN 1 ELSE 0) + 2 * or8(x \div 2, y \div 2, bits - 1)

\* x & y on u64
and64(x, y) == [i \in 1..8 |-> and8(x[i], y[i], 8)]

\* x | y on u64
or64(x, y) == [i \in 1..8 |-> or8(x[i], y[i], 8)]

\* x << (8 * nbytes) on u64: the bytes shifted past the top are lost
shl64(x, nbytes) == [i \in 1..8 |-> IF i <= nbytes THEN 0 ELSE x[i - nbytes]]

\* the literal 0xFF
xFF == 255

\* the literal 0xFF_FF_FF
xFFFFFF == 16777215

\* col_line of hash_stable.  In Rust `<<` binds tighter than `&`, so the third
\* word is `(col_hi.0 as u64) & (0xFF << 32)`.
col_line(col_lo, line_lo, col_hi, line_hi) ==
    LET col_lo_trunc == and64(as_u64(col_lo), as_u64(xFF))
        line_lo_trunc == shl64(and64(as_u64(line_lo), as_u64(xFFFFFF)), 1)
        col_hi_trunc == and64(as_u64(col_hi), shl64(as_u64(xFF), 4))
        line_hi_trunc == shl64(and64(as_u64(line_hi), as_u64(xFFFFFF)), 5)
    IN  or64(or64(or64(col_lo_trunc, line_lo_trunc), col_hi_trunc), line_hi_trunc)

(* ----------------------------- line tables ----------------------------- *)
\* SourceFileLines::Lines(lines)
Lines(lines) ==
    [form |-> "Lines", lines |-> lines,
     bytes_per_diff |-> 0, num_diffs |-> 0, raw_diffs |-> << >>]

\* SourceFileLines::Diffs(SourceFileDiffs { bytes_per_diff, num_diffs, raw_diffs })
Diffs(bytes_per_diff, num_diffs, raw_diffs) ==
    [form |-> "Diffs", lines |-> << >>,
     bytes_per_diff |-> bytes_per_diff, num_diffs |-> num_diffs, raw_diffs |-> raw_diffs]

\* SourceFileLines::is_lines
is_lines(data) == data.form = "Lines"

\* lines.array_windows().map(|&[fst, snd]| snd - fst)
diff_iter(lines) == [i \in 1..(Len(lines) - 1) |-> lines[i + 1] - lines[i]]

\* Iterator::max of a non-empty sequence
RECURSIVE seq_max(_)
seq_max(q) ==
    IF Len(q) = 1 THEN q[1]
    ELSE LET m == seq_max(Tail(q)) IN IF q[1] > m THEN q[1] ELSE m

\* max_line_length of the encoder
max_line_length(lines) == IF Len(lines) = 1 THEN 0 ELSE seq_max(diff_iter(lines))

\* a width choice that lets a diff of 0x100 into one byte
bytes_per_diff_off_by_one(max_len) ==
    IF max_len <= 256 THEN 1 ELSE IF max_len <= 65535 THEN 2 ELSE 4

\* match max_line_length { 0..=0xFF => 1, 0x100..=0xFFFF => 2, _ => 4 }
bytes_per_diff_for(max_len) ==
    IF max_len <= 255 THEN 1 ELSE IF max_len <= 65535 THEN 2 ELSE 4

\* the concatenation of a sequence of byte sequences
RECURSIVE flatten(_)
flatten(q) == IF q = << >> THEN << >> ELSE q[1] \o flatten(Tail(q))

\* raw_diffs of the encoder: every diff cast to the width and written in
\* little-endian bytes
raw_diffs_of(lines, bytes_per_diff) ==
    flatten([i \in 1..(Len(lines) - 1) |-> to_bytes(diff_iter(lines)[i], bytes_per_diff)])

\* the line table part of <SourceFile as Encodable>::encode: emit_u32 of the
\* count, then emit_u8 of the width and the raw bytes when there is a line
encode_lines(lines) ==
    IF Len(lines) = 0 THEN << 0 >>
    ELSE LET bytes_per_diff == bytes_per_diff_for(max_line_length(lines))
         IN  << Len(lines), bytes_per_diff >> \o raw_diffs_of(lines, bytes_per_diff)

\* the line table part of <SourceFile as Decodable>::decode
decode_lines(d) ==
    LET num_lines == d[1]
    IN  IF num_lines > 0
        THEN LET bytes_per_diff == d[2]
                 num_diffs == num_lines - 1
             IN  Diffs(bytes_per_diff, num_diffs, SubSeq(d, 3, 2 + bytes_per_diff * num_diffs))
        ELSE Lines(<< >>)

\* from_le_bytes that reads the low byte only
from_le_bytes_low(bytes) == IF bytes = << >> THEN 0 ELSE bytes[1]

\* u16::from_le_bytes / u32::from_le_bytes
RECURSIVE from_le_bytes(_)
from_le_bytes(bytes) ==
    IF bytes = << >> THEN 0 ELSE bytes[1] + 256 * from_le_bytes(Tail(bytes))

\* the lines that convert_diffs_to_lines_frozen builds: 0, then the running
\* sum of the diffs read from raw_diffs
RECURSIVE lines_from_diffs(_, _, _)
lines_from_diffs(d, i, line_start) ==
    IF i = d.num_diffs THEN << >>
    ELSE LET pos == d.bytes_per_diff * i
             diff == from_le_bytes(SubSeq(d.raw_diffs, pos + 1, pos + d.bytes_per_diff))
         IN  << line_start + diff >> \o lines_from_diffs(d, i + 1, line_start + diff)

convert_diffs_to_lines(d) == << 0 >> \o lines_from_diffs(d, 0, 0)

\* FreezeLock::new(data) / FreezeLock::frozen(data)
FreezeLock(data, frozen) == [data |-> data, frozen |-> frozen]

\* convert_diffs_to_lines_frozen that leaves the converted table unfrozen
convert_diffs_to_lines_unfrozen(lk) ==
    IF lk.frozen THEN lk
    ELSE IF is_lines(lk.data) THEN FreezeLock(lk.data, TRUE)
    ELSE FreezeLock(Lines(convert_diffs_to_lines(lk.data)), FALSE)

\* SourceFile::convert_diffs_to_lines_frozen with no other holder of the
\* lock: the lock cell afterwards
convert_diffs_to_lines_frozen(lk) ==
    IF lk.frozen THEN lk
    ELSE IF is_lines(lk.data) THEN FreezeLock(lk.data, TRUE)
    ELSE FreezeLock(Lines(convert_diffs_to_lines(lk.data)), TRUE)

\* SourceFile::lines with no other holder of the lock: the lock cell
\* afterwards, the slice returned, and whether unreachable!() was hit
lines_call(lk) ==
    IF lk.frozen /\ is_lines(lk.data)
    THEN [lock |-> lk, lines |-> lk.data.lines, unreachable |-> FALSE]
    ELSE LET after == convert_diffs_to_lines_frozen(lk)
         IN  IF after.frozen /\ is_lines(after.data)
             THEN [lock |-> after, lines |-> after.data.lines, unreachable |-> FALSE]
             ELSE [lock |-> after, lines |-> << >>, unreachable |-> TRUE]

(* --------------------------- external source -------------------------- *)
\* Option<String>: a text is the sequence of its UTF-8 bytes
NoSrc == [some |-> FALSE, text |-> << >>]

SomeSrc(text) == [some |-> TRUE, text |-> text]

Unneeded == [tag |-> "Unneeded", kind |-> "none", src |-> << >>]

AbsentOk == [tag |-> "Foreign", kind |-> "AbsentOk", src |-> << >>]

AbsentErr == [tag |-> "Foreign", kind |-> "AbsentErr", src |-> << >>]

Present(src) == [tag |-> "Foreign", kind |-> "Present", src |-> src]

get_source(external_src) ==
    IF external_src.tag = "Foreign" /\ external_src.kind = "Present"
    THEN SomeSrc(external_src.src)
    ELSE NoSrc

HashKinds == {"Md5", "Sha256"}

\* the digest of a byte string: a fold over its bytes into a bounded value
\* whose width depends on the algorithm, so that distinct texts can collide
RECURSIVE digest_from(_, _, _)
digest_from(h, kind, data) ==
    IF Len(data) = 0 THEN h
    ELSE digest_from((h * 31 + Head(data)) % (IF kind = "Md5" THEN 251 ELSE 65521),
                     kind, Tail(data))

digest(kind, data) == digest_from(Len(data), kind, data)

SourceFileHashNew(kind, src) == [kind |-> kind, value |-> digest(kind, src)]

matches(src_hash, src) == SourceFileHashNew(src_hash.kind, src) = src_hash

BOM == << 239, 187, 191 >>

remove_bom(src) ==
    IF Len(src) >= 3 /\ SubSeq(src, 1, 3) = BOM
    THEN SubSeq(src, 4, Len(src))
    ELSE src

\* every `\r\n` becomes `\n`; a `\r` not followed by `\n` stays
RECURSIVE normalize_newlines(_)
normalize_newlines(src) ==
    IF Len(src) = 0 THEN << >>
    ELSE IF Len(src) >= 2 /\ src[1] = 13 /\ src[2] = 10
         THEN normalize_newlines(Tail(src))
         ELSE << Head(src) >> \o normalize_newlines(Tail(src))

normalize_src(src) == normalize_newlines(remove_bom(src))

\* the closure passed to and_then in add_external_src, but with the hash
\* taken after normalization
checked_src_normalized_first(src_hash, got) ==
    IF got.some /\ matches(src_hash, normalize_src(got.text))
    THEN SomeSrc(normalize_src(got.text))
    ELSE NoSrc

\* the closure passed to and_then in add_external_src: the hash is computed
\* on the text as the callback gave it, the text that is kept is normalized
checked_src(src_hash, got) ==
    IF got.some /\ matches(src_hash, got.text)
    THEN SomeSrc(normalize_src(got.text))
    ELSE NoSrc

\* what the write under the guard leaves in the cell
src_kind_for(src) == IF src.some THEN Present(src.text) ELSE AbsentErr

\* write_external_src that leaves the cell unfrozen
write_external_src_unfrozen(external_src, src) ==
    IF external_src.data = AbsentOk
    THEN [lock |-> FreezeLock(src_kind_for(src), FALSE), panic |-> "none"]
    ELSE [lock |-> external_src, panic |-> "unexpected state"]

\* the closure passed to try_write().map in add_external_src, for a caller
\* that got the guard
write_external_src(external_src, src) ==
    IF external_src.data = AbsentOk
    THEN [lock |-> FreezeLock(src_kind_for(src), TRUE), panic |-> "none"]
    ELSE [lock |-> external_src, panic |-> "unexpected state"]

\* one whole call with no other caller in flight; got is what the callback
\* returns if it is invoked
add_external_src(src, src_hash, external_src, got) ==
    LET invoked == ~external_src.frozen
        written == IF invoked
                   THEN write_external_src(external_src, checked_src(src_hash, got))
                   ELSE [lock |-> external_src, panic |-> "none"]
    IN  [invoked |-> invoked,
         got     |-> got,
         before  |-> external_src,
         after   |-> written.lock,
         panic   |-> written.panic,
         ret     |-> IF written.panic # "none" THEN FALSE
                     ELSE src.some \/ get_source(written.lock.data).some]

(* ------------------------ normalization records ------------------------ *)
NormalizedPos(pos, diff) == [pos |-> pos, diff |-> diff]

NoIdx == -1

\* find_cr: the index of the first `\r`, counted from 0
RECURSIVE find_cr_from(_, _)
find_cr_from(src, i) ==
    IF i >= Len(src) THEN NoIdx
    ELSE IF src[i + 1] = 13 THEN i
    ELSE find_cr_from(src, i + 1)

find_cr(src) == find_cr_from(src, 0)

\* find_crlf that takes every `\r` for the start of a pair
find_crlf_any_cr(src, search_idx) ==
    LET idx == find_cr(SubSeq(src, search_idx + 1, Len(src)))
    IN  IF idx = NoIdx THEN NoIdx ELSE search_idx + idx

\* find_crlf: the loop over find_cr that skips a `\r` not followed by `\n`
RECURSIVE find_crlf_from(_, _)
find_crlf_from(src, search_idx) ==
    LET rest == SubSeq(src, search_idx + 1, Len(src))
        idx  == find_cr(rest)
    IN  IF idx = NoIdx THEN NoIdx
        ELSE IF idx + 1 < Len(rest) /\ rest[idx + 2] = 10 THEN search_idx + idx
        ELSE find_crlf_from(src, search_idx + idx + 1)

find_crlf(src) == find_crlf_from(src, 0)

\* tail.copy_within(src_start..src_end, 0) for the tail of buf that starts at offset
\* tail_start
copy_within(buf, tail_start, src_start, src_end) ==
    [k \in 1..Len(buf) |->
        IF k > tail_start /\ k <= tail_start + (src_end - src_start)
        THEN buf[k + src_start]
        ELSE buf[k]]

\* remove_bom: the text without its BOM and the record pushed for it
remove_bom_in_place(src) ==
    IF Len(src) >= 3 /\ SubSeq(src, 1, 3) = BOM
    THEN [src |-> SubSeq(src, 4, Len(src)), normalized_pos |-> << NormalizedPos(0, 3) >>]
    ELSE [src |-> src, normalized_pos |-> << >>]

\* the loop of normalize_newlines over the stolen buffer
RECURSIVE normalize_newlines_loop(_, _, _, _, _, _)
normalize_newlines_loop(buf, tail_start, gap_len, cursor, normalized_pos, original_gap) ==
    LET tail == SubSeq(buf, tail_start + 1, Len(buf))
        crlf == find_crlf(SubSeq(tail, gap_len + 1, Len(tail)))
        idx  == IF crlf = NoIdx THEN Len(tail) ELSE crlf + gap_len
        buf2 == copy_within(buf, tail_start, gap_len, idx)
        tail_start2 == tail_start + (idx - gap_len)
    IN  IF Len(buf) - tail_start2 = gap_len
        THEN [src |-> SubSeq(buf2, 1, Len(buf2) - gap_len),
              normalized_pos |-> normalized_pos]
        ELSE normalize_newlines_loop(
                 buf2, tail_start2, gap_len + 1, cursor + (idx - gap_len),
                 Append(normalized_pos,
                        NormalizedPos(cursor + (idx - gap_len) + 1,
                                      original_gap + gap_len + 1)),
                 original_gap)

\* normalize_newlines that records the position of the `\n` itself
normalize_newlines_pos_at_lf(src, normalized_pos) ==
    IF find_cr(src) = NoIdx
    THEN [src |-> src, normalized_pos |-> normalized_pos]
    ELSE LET r == normalize_newlines_loop(
                      src, 0, 0, 0, << >>,
                      IF Len(normalized_pos) = 0 THEN 0
                      ELSE normalized_pos[Len(normalized_pos)].diff)
         IN  [src |-> r.src,
              normalized_pos |-> normalized_pos \o
                  [i \in 1..Len(r.normalized_pos) |->
                      NormalizedPos(r.normalized_pos[i].pos - 1, r.normalized_pos[i].diff)]]

\* normalize_newlines with the records it pushes
normalize_newlines_in_place(src, normalized_pos) ==
    IF find_cr(src) = NoIdx
    THEN [src |-> src, normalized_pos |-> normalized_pos]
    ELSE normalize_newlines_loop(
             src, 0, 0, 0, normalized_pos,
             IF Len(normalized_pos) = 0 THEN 0
             ELSE normalized_pos[Len(normalized_pos)].diff)

\* normalize_src with the records it returns
normalize_src_in_place(src) ==
    LET b == remove_bom_in_place(src)
    IN  normalize_newlines_in_place(b.src, b.normalized_pos)

\* slice::binary_search_by over keys in increasing order: Ok(i) for the index
\* of the key that equals the target, Err(i) for where it would be inserted
binary_search(keys, target) ==
    IF \E i \in 1..Len(keys) : keys[i] = target
    THEN [ok |-> TRUE, i |-> (CHOOSE i \in 1..Len(keys) : keys[i] = target) - 1]
    ELSE [ok |-> FALSE, i |-> Cardinality({i \in 1..Len(keys) : keys[i] < target})]

\* the match on the search result in both conversions
diff_at(normalized_pos, found) ==
    IF found.ok THEN normalized_pos[found.i + 1].diff
    ELSE IF found.i = 0 THEN 0
    ELSE normalized_pos[found.i].diff

original_relative_byte_pos(f, pos) ==
    LET rel == relative_position(f, pos)
        keys == [i \in 1..Len(f.normalized_pos) |-> f.normalized_pos[i].pos]
    IN  rel + diff_at(f.normalized_pos, binary_search(keys, rel))

normalized_byte_pos(f, offset) ==
    LET keys == [i \in 1..Len(f.normalized_pos) |->
                    f.normalized_pos[i].pos + f.normalized_pos[i].diff]
    IN  f.start_pos + offset
            - diff_at(f.normalized_pos, binary_search(keys, f.start_pos + offset))

(* --------------------------- stable hashing ---------------------------- *)
TAG_VALID_SPAN == 0

TAG_INVALID_SPAN == 1

TAG_RELATIVE_SPAN == 2

\* one value fed to the StableHasher
Fed(kind, val) == [kind |-> kind, val |-> val, word |-> << >>]

FedWord(w) == [kind |-> "col_line", val |-> 0, word |-> w]

\* ctx.def_span(def_id): definition d covers the file from byte d-1 to its end
def_span(f, def_id) ==
    SpanNew(absolute_position(f, min(def_id - 1, f.source_len)),
            end_position(f), root, None)

\* ctx.span_data_to_lines_and_cols(&span): None (<< >>) unless both ends lie
\* in the file, else (file, line_lo, col_lo, line_hi, col_hi) with 1-based
\* lines and byte columns
span_data_to_lines_and_cols(f, span) ==
    IF ~ (file_contains(f, span.lo) /\ file_contains(f, span.hi)) THEN << >>
    ELSE LET lo_line == lookup_line(f.lines, relative_position(f, span.lo))
             hi_line == lookup_line(f.lines, relative_position(f, span.hi))
         IN  IF lo_line = NoLine \/ hi_line = NoLine THEN << >>
             ELSE << f.stable_id,
                     lo_line + 1,
                     span.lo - absolute_position(f, f.lines[lo_line + 1]),
                     hi_line + 1,
                     span.hi - absolute_position(f, f.lines[hi_line + 1]) >>

\* hash_stable that feeds the absolute positions in the relative branch
hash_stable_absolute(f, do_hash_spans, span) ==
    LET prefix == << Fed("ctxt", span.ctxt), Fed("parent", span.parent) >>
        def_sp == def_span(f, span.parent)
        resolved == span_data_to_lines_and_cols(f, span)
    IN  IF ~ do_hash_spans THEN << >>
        ELSE IF is_dummy(span) THEN prefix \o << Fed("tag", TAG_INVALID_SPAN) >>
        ELSE IF span.parent # None /\ contains(def_sp, span)
        THEN prefix \o << Fed("tag", TAG_RELATIVE_SPAN),
                          Fed("u32", span.lo),
                          Fed("u32", span.hi) >>
        ELSE IF resolved = << >> THEN prefix \o << Fed("tag", TAG_INVALID_SPAN) >>
        ELSE prefix \o << Fed("tag", TAG_VALID_SPAN),
                          Fed("stable_id", resolved[1]),
                          FedWord(col_line(resolved[3], resolved[2], resolved[5], resolved[4])),
                          Fed("len", span.hi - span.lo) >>

\* hash_stable without the early return for the dummy span
hash_stable_no_dummy(f, do_hash_spans, span) ==
    LET prefix == << Fed("ctxt", span.ctxt), Fed("parent", span.parent) >>
        def_sp == def_span(f, span.parent)
        resolved == span_data_to_lines_and_cols(f, span)
    IN  IF ~ do_hash_spans THEN << >>
        ELSE IF span.parent # None /\ contains(def_sp, span)
        THEN prefix \o << Fed("tag", TAG_RELATIVE_SPAN),
                          Fed("u32", span.lo - def_sp.lo),
                          Fed("u32", span.hi - def_sp.lo) >>
        ELSE IF resolved = << >> THEN prefix \o << Fed("tag", TAG_INVALID_SPAN) >>
        ELSE prefix \o << Fed("tag", TAG_VALID_SPAN),
                          Fed("stable_id", resolved[1]),
                          FedWord(col_line(resolved[3], resolved[2], resolved[5], resolved[4])),
                          Fed("len", span.hi - span.lo) >>

\* <Span as HashStable>::hash_stable: the values fed to the hasher, in order
hash_stable(f, do_hash_spans, span) ==
    LET prefix == << Fed("ctxt", span.ctxt), Fed("parent", span.parent) >>
        def_sp == def_span(f, span.parent)
        resolved == span_data_to_lines_and_cols(f, span)
    IN  IF ~ do_hash_spans THEN << >>
        ELSE IF is_dummy(span) THEN prefix \o << Fed("tag", TAG_INVALID_SPAN) >>
        ELSE IF span.parent # None /\ contains(def_sp, span)
        THEN prefix \o << Fed("tag", TAG_RELATIVE_SPAN),
                          Fed("u32", span.lo - def_sp.lo),
                          Fed("u32", span.hi - def_sp.lo) >>
        ELSE IF resolved = << >> THEN prefix \o << Fed("tag", TAG_INVALID_SPAN) >>
        ELSE prefix \o << Fed("tag", TAG_VALID_SPAN),
                          Fed("stable_id", resolved[1]),
                          FedWord(col_line(resolved[3], resolved[2], resolved[5], resolved[4])),
                          Fed("len", span.hi - span.lo) >>

(* ------------------------------- state --------------------------------- *)
VARIABLES
    self,        \* the receiver span of the operation
    end,         \* the other span operand
    op,          \* the operation that has been applied ("init" before any)
    ret,         \* what the operation returned
    file,        \* the SourceFile of the hashed span, as loaded in the SourceMap
    hspan,       \* the span that is hashed
    hash_spans,  \* ctx.hash_spans()
    hashed,      \* per hash_stable call, the values fed to its hasher
    linecol,     \* << col_lo, line_lo, col_hi, line_hi >> of a resolved span
    packed,      \* the col_line word computed from linecol
    lt,          \* SourceFile::lines, a FreezeLock<SourceFileLines>
    meta,        \* the line table bytes written by the latest encode
    origin,      \* the line table bytes the SourceFile was decoded from
    gen,         \* how many times the SourceFile has been decoded
    lret,        \* what the latest lines() call on this SourceFile returned
    llook,       \* what the latest lookup_line call returned
    lpanic,      \* the assertion or unreachable!() that has panicked, if any
    llock,       \* the thread that holds the write guard of lt (0: nobody)
    lpc,         \* per thread, its position in lines()
    lout,        \* per thread, what its lines() call returned
    lwrites,     \* how many times `*guard = Lines(..)` has been executed
    lfreezes,    \* how many times FreezeWriteGuard::freeze has been executed
    esrc,        \* SourceFile::src, the locally loaded text if any
    ehash,       \* SourceFile::src_hash
    ext,         \* SourceFile::external_src, a FreezeLock<ExternalSource>
    ecalls,      \* the add_external_src calls made one after the other
    epanic,      \* the panic add_external_src has raised, if any
    elock,       \* the thread that holds the write guard of ext (0: nobody)
    epc,         \* per thread, its position in add_external_src
    eloc,        \* per thread, its callback's result, its src and its return
    ewrites,     \* how many times `*src_kind = ..` has been executed
    ewriter,     \* the thread that executed `*src_kind = ..` (0: nobody)
    gset,        \* the SessionGlobals SESSION_GLOBALS points at (0: not set)
    gmap,        \* per SessionGlobals, its source_map field (0: None)
    gstack,      \* the closures of the session functions that are running
    gmade,       \* how many SessionGlobals have been created
    gpanic,      \* the panic that is unwinding the thread, if any
    gfails,      \* how many panics have been raised
    ntext,       \* the text given to SourceFile::new, before normalization
    nfile,       \* the SourceFile made from ntext
    nret,        \* the latest byte position conversion and its result
    nagain,      \* what normalize_newlines gives for the normalized text
    kfile,       \* the SourceFile whose positions are looked up
    kret,        \* the latest lookup on kfile and its result
    mexpn,       \* per non-root SyntaxContext, the call site of its outer expansion
    mself,       \* macro_backtrace: the span the iterator has walked to
    mprev,       \* macro_backtrace: prev_span
    myield,      \* the ExpnData the iterator has yielded so far
    mdone        \* whether the iterator has returned None

svars == << self, end, op, ret >>

hvars == << file, hspan, hash_spans, hashed >>

pvars == << linecol, packed >>

lvars == << lt, meta, origin, gen, lret, llook, lpanic >>

lvars_but_lt == << meta, origin, gen, lret, llook, lpanic >>

cvars == << llock, lpc, lout, lwrites, lfreezes >>

evars == << esrc, ehash, ext, ecalls, epanic, elock, epc, eloc, ewrites, ewriter >>

gvars == << gset, gmap, gstack, gmade, gpanic, gfails >>

nvars == << ntext, nfile, nret, nagain >>

kvars == << kfile, kret >>

mvars == << mexpn, mself, mprev, myield, mdone >>

vars == << self, end, op, ret, file, hspan, hash_spans, hashed, linecol, packed,
           lt, meta, origin, gen, lret, llook, lpanic,
           llock, lpc, lout, lwrites, lfreezes,
           esrc, ehash, ext, ecalls, epanic, elock, epc, eloc, ewrites, ewriter,
           gset, gmap, gstack, gmade, gpanic, gfails,
           ntext, nfile, nret, nagain, kfile, kret,
           mexpn, mself, mprev, myield, mdone >>

\* the value of `ret` before any operation has returned
NoRet == [span |-> DUMMY_SP, span2 |-> DUMMY_SP, bool |-> FALSE, ord |-> "Equal", pos |-> 0,
          enc |-> << >>]

\* the span operands are not in use
SpanIdle == self = DUMMY_SP /\ end = DUMMY_SP /\ op = "idle" /\ ret = NoRet

\* no span is being hashed
HashIdle ==
    /\ file = [start_pos |-> 0, source_len |-> 0, lines |-> << 0 >>, stable_id |-> "none"]
    /\ hspan = DUMMY_SP
    /\ hash_spans = FALSE
    /\ hashed = << >>

\* no line/column pair is being packed
PackIdle == linecol = << 0, 0, 0, 0 >> /\ packed = << >>

\* no encoder output
NoMeta == << >>

\* lines() has not been called on the SourceFile
NoCall == [called |-> FALSE, lines |-> << >>]

\* no SourceFile line table is in use
LineIdle ==
    /\ lt = FreezeLock(Lines(<< 0 >>), TRUE)
    /\ meta = NoMeta
    /\ origin = NoMeta
    /\ gen = 0
    /\ lret = NoCall
    /\ llook = NoLine
    /\ lpanic = "none"

\* no thread is in lines()
ConcIdle ==
    /\ llock = 0
    /\ lpc = << >>
    /\ lout = << >>
    /\ lwrites = 0
    /\ lfreezes = 0

\* no macro has been expanded and no backtrace is being walked
MacroIdle ==
    /\ mexpn = << >>
    /\ mself = DUMMY_SP
    /\ mprev = DUMMY_SP
    /\ myield = << >>
    /\ mdone = TRUE

NoLookup == [fn |-> "none", pos |-> 0, line |-> NoLine, lo |-> 0, hi |-> 0,
             col |-> 0, col_display |-> 0, panic |-> "none"]

\* the file of an empty text
PosIdle ==
    /\ kfile = [chars |-> << >>, start_pos |-> 0, source_len |-> 0, lines |-> << 0 >>,
                multibyte_chars |-> << >>, non_narrow_chars |-> << >>]
    /\ kret = NoLookup

NoFile == [made |-> FALSE, src |-> << >>, start_pos |-> 0, source_len |-> 0,
           normalized_pos |-> << >>]

NoQuery == [fn |-> "none", arg |-> 0, out |-> 0]

NoAgain == [done |-> FALSE, src |-> << >>, normalized_pos |-> << >>]

\* no text has been made into a SourceFile
NormIdle ==
    /\ ntext = << >>
    /\ nfile = NoFile
    /\ nret = NoQuery
    /\ nagain = NoAgain

\* a thread on which no session has been established
GlobIdle ==
    /\ gset = 0
    /\ gmap = [g \in 1..MaxGlobals |-> 0]
    /\ gstack = << >>
    /\ gmade = 0
    /\ gpanic = "none"
    /\ gfails = 0

\* a SourceFile as SourceFile::new leaves its source fields, for an empty text
ExtIdle ==
    /\ esrc = SomeSrc(<< >>)
    /\ ehash = SourceFileHashNew("Md5", << >>)
    /\ ext = FreezeLock(Unneeded, TRUE)
    /\ ecalls = << >>
    /\ epanic = "none"
    /\ elock = 0
    /\ epc = << >>
    /\ eloc = << >>
    /\ ewrites = 0
    /\ ewriter = 0

(* --------------------------- span algebra ------------------------------ *)
SpanInit ==
    /\ self \in Spans
    /\ end \in Spans
    /\ op = "init"
    /\ ret = NoRet
    /\ HashIdle
    /\ MacroIdle
    /\ PosIdle
    /\ NormIdle
    /\ GlobIdle
    /\ PackIdle
    /\ LineIdle
    /\ ConcIdle
    /\ ExtIdle

\* self.to(end)
To ==
    /\ op = "init"
    /\ op' = "to"
    /\ ret' = [NoRet EXCEPT !.span = to(self, end)]
    /\ UNCHANGED << self, end, hvars, pvars, lvars, cvars, evars, gvars, nvars, kvars, mvars >>

\* self.between(end)
Between ==
    /\ op = "init"
    /\ op' = "between"
    /\ ret' = [NoRet EXCEPT !.span = between(self, end)]
    /\ UNCHANGED << self, end, hvars, pvars, lvars, cvars, evars, gvars, nvars, kvars, mvars >>

\* self.until(end)
Until ==
    /\ op = "init"
    /\ op' = "until"
    /\ ret' = [NoRet EXCEPT !.span = until(self, end)]
    /\ UNCHANGED << self, end, hvars, pvars, lvars, cvars, evars, gvars, nvars, kvars, mvars >>

\* self.split_at(pos), for every pos the debug assertion admits
SplitAt ==
    /\ op = "init"
    /\ \E pos \in 0..(self.hi - self.lo) :
         ret' = [NoRet EXCEPT !.span = split_at(self, pos)[1],
                              !.span2 = split_at(self, pos)[2],
                              !.pos = pos]
    /\ op' = "split_at"
    /\ UNCHANGED << self, end, hvars, pvars, lvars, cvars, evars, gvars, nvars, kvars, mvars >>

\* self.contains(end)
Contains ==
    /\ op = "init"
    /\ op' = "contains"
    /\ ret' = [NoRet EXCEPT !.bool = contains(self, end)]
    /\ UNCHANGED << self, end, hvars, pvars, lvars, cvars, evars, gvars, nvars, kvars, mvars >>

\* self.overlaps(end)
Overlaps ==
    /\ op = "init"
    /\ op' = "overlaps"
    /\ ret' = [NoRet EXCEPT !.bool = overlaps(self, end)]
    /\ UNCHANGED << self, end, hvars, pvars, lvars, cvars, evars, gvars, nvars, kvars, mvars >>

\* Ord::cmp(&self, &end) together with self == end
Cmp ==
    /\ op = "init"
    /\ op' = "cmp"
    /\ ret' = [NoRet EXCEPT !.ord = cmp(self, end), !.bool = eq(self, end)]
    /\ UNCHANGED << self, end, hvars, pvars, lvars, cvars, evars, gvars, nvars, kvars, mvars >>

\* self.encode(s) into an empty encoder
EncodeSpan ==
    /\ op = "init"
    /\ op' = "encode"
    /\ ret' = [NoRet EXCEPT !.enc = encode_span(self)]
    /\ UNCHANGED << self, end, hvars, pvars, lvars, cvars, evars, gvars, nvars, kvars, mvars >>

\* Span::decode(d) on the values that EncodeSpan wrote
DecodeSpan ==
    /\ op = "encode"
    /\ op' = "decode"
    /\ ret' = [ret EXCEPT !.span = decode_span(ret.enc)]
    /\ UNCHANGED << self, end, hvars, pvars, lvars, cvars, evars, gvars, nvars, kvars, mvars >>

Init == SpanInit

Next ==
    \/ To \/ Between \/ Until \/ SplitAt \/ Contains \/ Overlaps \/ Cmp
    \/ EncodeSpan \/ DecodeSpan

Spec == Init /\ [][Next]_vars

(* --------------------------- hashing a span ---------------------------- *)
\* the increasing sequence of the elements of a set of offsets
RECURSIVE sorted(_)
sorted(S) ==
    IF S = {} THEN << >>
    ELSE LET m == CHOOSE x \in S : \A y \in S : x <= y
         IN  << m >> \o sorted(S \ {m})

\* the line tables of a file of FileLen bytes: line 0 starts at offset 0
LineTables == {<< 0 >> \o sorted(S) : S \in SUBSET (1..(FileLen - 1))}

\* the spans that are hashed, relative to the start of the file; a span that
\* ends at FileLen + 1 reaches past the end of the file
RelSpans == {s \in [lo : 0..(FileLen + 1), hi : 0..(FileLen + 1),
                    ctxt : 0..MaxCtxt, parent : 0..MaxDef] : s.lo <= s.hi}

\* `span` moved by `offset` bytes
shifted(span, offset) == [span EXCEPT !.lo = @ + offset, !.hi = @ + offset]

HashInit ==
    /\ \E start \in 0..MaxStart, lines \in LineTables :
         file = [start_pos |-> start, source_len |-> FileLen,
                 lines |-> lines, stable_id |-> "file"]
    /\ \E rel \in RelSpans : hspan = shifted(rel, file.start_pos)
    /\ hash_spans \in BOOLEAN
    /\ hashed = << >>
    /\ SpanIdle
    /\ MacroIdle
    /\ PosIdle
    /\ NormIdle
    /\ GlobIdle
    /\ PackIdle
    /\ LineIdle
    /\ ConcIdle
    /\ ExtIdle

\* hspan.hash_stable(ctx, hasher) with a fresh hasher
HashStable ==
    /\ Len(hashed) < 2
    /\ hashed' = Append(hashed, hash_stable(file, hash_spans, hspan))
    /\ UNCHANGED << file, hspan, hash_spans, svars, pvars, lvars, cvars, evars, gvars, nvars, kvars, mvars >>

\* another compilation session loads the same file at another start_pos: the
\* span and the definitions' spans move with it
MoveFile ==
    /\ Len(hashed) = 1
    /\ \E start \in (0..MaxStart) \ {file.start_pos} :
         /\ file' = [file EXCEPT !.start_pos = start]
         /\ hspan' = shifted(hspan, start - file.start_pos)
    /\ UNCHANGED << hash_spans, hashed, svars, pvars, lvars, cvars, evars, gvars, nvars, kvars, mvars >>

HashNext == HashStable \/ MoveFile

HashSpec == HashInit /\ [][HashNext]_vars

(* ----------------------- packing lines and columns --------------------- *)
\* byte columns, some above 2^8
ColSamples == {0, 1, 255, 256, 258}

\* 1-based line numbers, some above 2^24
LineSamples == {1, 2, 256, 65539, 16777216, 16777218}

PackInit ==
    /\ linecol \in ColSamples \X LineSamples \X ColSamples \X LineSamples
    /\ packed = << >>
    /\ SpanIdle
    /\ MacroIdle
    /\ PosIdle
    /\ NormIdle
    /\ GlobIdle
    /\ HashIdle
    /\ LineIdle
    /\ ConcIdle
    /\ ExtIdle

\* the col_line computation of hash_stable on a resolved span
PackColLine ==
    /\ packed = << >>
    /\ packed' = col_line(linecol[1], linecol[2], linecol[3], linecol[4])
    /\ UNCHANGED << linecol, svars, hvars, lvars, cvars, evars, gvars, nvars, kvars, mvars >>

PackNext == PackColLine

PackSpec == PackInit /\ [][PackNext]_vars

(* ------------------- a SourceFile's line table ------------------------- *)
\* lengths of lines, on both sides of 2^8 and of 2^16
GapSamples == {1, 2, 255, 256, 65535, 65536}

\* the line tables of n lines that analyze_source_file can build: line 0
\* starts at offset 0 and the offsets increase
RECURSIVE TablesOfLen(_)
TablesOfLen(n) ==
    IF n = 1 THEN {<< 0 >>}
    ELSE {Append(t, t[Len(t)] + g) : t \in TablesOfLen(n - 1), g \in GapSamples}

NewTables == UNION {TablesOfLen(n) : n \in 1..MaxLines}

\* positions looked up in a line table
PosSamples == {0, 1, 256, 70000}

\* a SourceFile made by SourceFile::new (lines frozen in Lines form), or one
\* decoded from the metadata of a file without lines
LineInit ==
    /\ \/ /\ \E t \in NewTables : lt = FreezeLock(Lines(t), TRUE)
          /\ origin = NoMeta
       \/ /\ lt = FreezeLock(decode_lines(<< 0 >>), FALSE)
          /\ origin = << 0 >>
    /\ meta = NoMeta
    /\ gen = 0
    /\ lret = NoCall
    /\ llook = NoLine
    /\ lpanic = "none"
    /\ ConcIdle
    /\ ExtIdle
    /\ SpanIdle
    /\ MacroIdle
    /\ PosIdle
    /\ NormIdle
    /\ GlobIdle
    /\ HashIdle
    /\ PackIdle

\* self.lines()
LinesCall ==
    /\ lpanic = "none"
    /\ LET r == lines_call(lt)
       IN  /\ lt' = r.lock
           /\ IF r.unreachable
              THEN lpanic' = "unreachable" /\ lret' = lret
              ELSE lpanic' = lpanic /\ lret' = [called |-> TRUE, lines |-> r.lines]
    /\ UNCHANGED << meta, origin, gen, llook, cvars, svars, hvars, pvars, evars, gvars, nvars, kvars, mvars >>

\* self.lookup_line(pos), which reads self.lines()
LookupLine ==
    /\ lpanic = "none"
    /\ \E pos \in PosSamples :
         LET r == lines_call(lt)
         IN  /\ lt' = r.lock
             /\ IF r.unreachable
                THEN lpanic' = "unreachable" /\ lret' = lret /\ llook' = llook
                ELSE /\ lpanic' = lpanic
                     /\ lret' = [called |-> TRUE, lines |-> r.lines]
                     /\ llook' = lookup_line(r.lines, pos)
    /\ UNCHANGED << meta, origin, gen, cvars, svars, hvars, pvars, evars, gvars, nvars, kvars, mvars >>

\* self.encode(s) into an empty encoder: asserts the Lines form, reads
\* self.lines(), asserts lines[0] == 0 and writes the line table
EncodeFile ==
    /\ lpanic = "none"
    /\ IF ~ is_lines(lt.data)
       THEN lpanic' = "assert is_lines" /\ UNCHANGED << lt, meta, lret >>
       ELSE LET r == lines_call(lt)
            IN  /\ lt' = r.lock
                /\ IF r.unreachable
                   THEN lpanic' = "unreachable" /\ UNCHANGED << meta, lret >>
                   ELSE /\ lret' = [called |-> TRUE, lines |-> r.lines]
                        /\ IF Len(r.lines) # 0 /\ r.lines[1] # 0
                           THEN lpanic' = "assert lines[0] == 0" /\ meta' = meta
                           ELSE lpanic' = lpanic /\ meta' = encode_lines(r.lines)
    /\ UNCHANGED << origin, gen, llook, cvars, svars, hvars, pvars, evars, gvars, nvars, kvars, mvars >>

\* SourceFile::decode(d) on what EncodeFile wrote: a new SourceFile, whose
\* lines are unfrozen and in Diffs form when there is a line
DecodeFile ==
    /\ lpanic = "none"
    /\ meta # NoMeta
    /\ gen < MaxDecodes
    /\ lt' = FreezeLock(decode_lines(meta), FALSE)
    /\ origin' = meta
    /\ meta' = NoMeta
    /\ gen' = gen + 1
    /\ lret' = NoCall
    /\ llook' = NoLine
    /\ UNCHANGED << lpanic, cvars, svars, hvars, pvars, evars, gvars, nvars, kvars, mvars >>

LineNext == LinesCall \/ LookupLine \/ EncodeFile \/ DecodeFile

LineSpec == LineInit /\ [][LineNext]_vars

(* ---------------- concurrent lines() on one SourceFile ----------------- *)
Threads == 1..NumThreads

\* a SourceFile just decoded from the metadata of a file with lines: the
\* table is unfrozen and in Diffs form, and every thread is about to call
\* lines()
ConcInit ==
    /\ \E t \in NewTables :
         /\ origin = encode_lines(t)
         /\ lt = FreezeLock(decode_lines(encode_lines(t)), FALSE)
    /\ meta = NoMeta
    /\ gen = 1
    /\ lret = NoCall
    /\ llook = NoLine
    /\ lpanic = "none"
    /\ llock = 0
    /\ lpc = [th \in Threads |-> "start"]
    /\ lout = [th \in Threads |-> NoCall]
    /\ lwrites = 0
    /\ lfreezes = 0
    /\ SpanIdle
    /\ MacroIdle
    /\ PosIdle
    /\ NormIdle
    /\ GlobIdle
    /\ HashIdle
    /\ PackIdle
    /\ ExtIdle

\* lines(): `if let Some(Lines(lines)) = self.lines.get()`, which sees the
\* data only when the lock is frozen
CGet(th) ==
    /\ lpc[th] = "start"
    /\ IF lt.frozen /\ is_lines(lt.data)
       THEN /\ lpc' = [lpc EXCEPT ![th] = "done"]
            /\ lout' = [lout EXCEPT ![th] = [called |-> TRUE, lines |-> lt.data.lines]]
       ELSE /\ lpc' = [lpc EXCEPT ![th] = "try_write"]
            /\ lout' = lout
    /\ UNCHANGED << lt, llock, lwrites, lfreezes, lvars_but_lt, svars, hvars, pvars, evars, gvars, nvars, kvars, mvars >>

\* convert_diffs_to_lines_frozen: self.lines.try_write() waits for the write
\* lock and gives no guard when the lock is frozen
CTryWrite(th) ==
    /\ lpc[th] = "try_write"
    /\ llock = 0
    /\ IF lt.frozen
       THEN lpc' = [lpc EXCEPT ![th] = "recheck"] /\ llock' = llock
       ELSE lpc' = [lpc EXCEPT ![th] = "guarded"] /\ llock' = th
    /\ UNCHANGED << lt, lout, lwrites, lfreezes, lvars_but_lt, svars, hvars, pvars, evars, gvars, nvars, kvars, mvars >>

\* convert_diffs_to_lines_frozen under the guard: a table in Diffs form is
\* replaced by its Lines form
CConvert(th) ==
    /\ lpc[th] = "guarded"
    /\ IF is_lines(lt.data)
       THEN lt' = lt /\ lwrites' = lwrites
       ELSE /\ lt' = [lt EXCEPT !.data = Lines(convert_diffs_to_lines(lt.data))]
            /\ lwrites' = lwrites + 1
    /\ lpc' = [lpc EXCEPT ![th] = "freeze"]
    /\ UNCHANGED << llock, lout, lfreezes, lvars_but_lt, svars, hvars, pvars, evars, gvars, nvars, kvars, mvars >>

\* CFreeze that drops the guard without freezing
CFreezeDropOnly(th) ==
    /\ lpc[th] = "freeze"
    /\ lt' = lt
    /\ lfreezes' = lfreezes + 1
    /\ llock' = 0
    /\ lpc' = [lpc EXCEPT ![th] = "recheck"]
    /\ UNCHANGED << lout, lwrites, lvars_but_lt, svars, hvars, pvars, evars, gvars, nvars, kvars, mvars >>

\* FreezeWriteGuard::freeze(guard): the lock is frozen and the guard dropped
CFreeze(th) ==
    /\ lpc[th] = "freeze"
    /\ lt' = [lt EXCEPT !.frozen = TRUE]
    /\ lfreezes' = lfreezes + 1
    /\ llock' = 0
    /\ lpc' = [lpc EXCEPT ![th] = "recheck"]
    /\ UNCHANGED << lout, lwrites, lvars_but_lt, svars, hvars, pvars, evars, gvars, nvars, kvars, mvars >>

\* lines(): the second `self.lines.get()`, else unreachable!()
CRecheck(th) ==
    /\ lpc[th] = "recheck"
    /\ IF lt.frozen /\ is_lines(lt.data)
       THEN /\ lpc' = [lpc EXCEPT ![th] = "done"]
            /\ lout' = [lout EXCEPT ![th] = [called |-> TRUE, lines |-> lt.data.lines]]
            /\ lpanic' = lpanic
       ELSE /\ lpc' = [lpc EXCEPT ![th] = "panicked"]
            /\ lout' = lout
            /\ lpanic' = "unreachable"
    /\ UNCHANGED << lt, llock, lwrites, lfreezes, meta, origin, gen, lret, llook,
                    svars, hvars, pvars, evars, gvars, nvars, kvars, mvars >>

ConcNext ==
    \E th \in Threads :
        CGet(th) \/ CTryWrite(th) \/ CConvert(th) \/ CFreeze(th) \/ CRecheck(th)

ConcSpec == ConcInit /\ [][ConcNext]_vars

(* ------------------- a SourceFile's external source -------------------- *)
\* texts with and without a BOM, with `\r\n`, with a lone `\r`, and a pair
\* whose Md5 digests collide
TextSamples ==
    { << >>, << 97 >>, << 37, 71 >>, << 97, 10 >>, << 97, 13, 10 >>, << 97, 13 >>,
      BOM \o << 97 >>, BOM \o << 97, 13, 10 >> }

Callbacks == {NoSrc} \cup {SomeSrc(t) : t \in TextSamples}

\* the source fields of a file read by this session, of a file just decoded
\* from metadata, and of a file imported from another crate whose source
\* has not been asked for yet
SourceFields ==
    { [src |-> SomeSrc(normalize_src(t)), src_hash |-> SourceFileHashNew(k, t),
       external_src |-> FreezeLock(Unneeded, TRUE)] : t \in TextSamples, k \in HashKinds }
    \cup
    { [src |-> NoSrc, src_hash |-> SourceFileHashNew(k, t),
       external_src |-> FreezeLock(Unneeded, TRUE)] : t \in TextSamples, k \in HashKinds }
    \cup
    { [src |-> NoSrc, src_hash |-> SourceFileHashNew(k, t),
       external_src |-> FreezeLock(AbsentOk, FALSE)] : t \in TextSamples, k \in HashKinds }

ExtInit ==
    /\ \E f \in SourceFields :
         /\ esrc = f.src
         /\ ehash = f.src_hash
         /\ ext = f.external_src
    /\ ecalls = << >>
    /\ epanic = "none"
    /\ elock = 0
    /\ epc = << >>
    /\ eloc = << >>
    /\ ewrites = 0
    /\ ewriter = 0
    /\ SpanIdle
    /\ MacroIdle
    /\ PosIdle
    /\ NormIdle
    /\ GlobIdle
    /\ HashIdle
    /\ PackIdle
    /\ LineIdle
    /\ ConcIdle

AddExternalSrc ==
    /\ Len(ecalls) < MaxCalls
    /\ epanic = "none"
    /\ \E got \in Callbacks :
         LET call == add_external_src(esrc, ehash, ext, got)
         IN  /\ ext' = call.after
             /\ epanic' = call.panic
             /\ ecalls' = Append(ecalls, call)
    /\ UNCHANGED << esrc, ehash, elock, epc, eloc, ewrites, ewriter,
                    svars, hvars, pvars, lvars, cvars, gvars, nvars, kvars, mvars >>

ExtNext == AddExternalSrc

ExtSpec == ExtInit /\ [][ExtNext]_vars

(* ------------- concurrent add_external_src on one SourceFile ----------- *)
NoLocal == [invoked |-> FALSE, got |-> NoSrc, src |-> NoSrc, returned |-> FALSE, ret |-> FALSE]

\* a file imported from another crate whose source has not been asked for;
\* every thread is about to call add_external_src
ExtConcInit ==
    /\ \E t \in TextSamples, k \in HashKinds : ehash = SourceFileHashNew(k, t)
    /\ esrc = NoSrc
    /\ ext = FreezeLock(AbsentOk, FALSE)
    /\ ecalls = << >>
    /\ epanic = "none"
    /\ elock = 0
    /\ epc = [th \in Threads |-> "start"]
    /\ eloc = [th \in Threads |-> NoLocal]
    /\ ewrites = 0
    /\ ewriter = 0
    /\ SpanIdle
    /\ MacroIdle
    /\ PosIdle
    /\ NormIdle
    /\ GlobIdle
    /\ HashIdle
    /\ PackIdle
    /\ LineIdle
    /\ ConcIdle

\* `if !self.external_src.is_frozen()`
EIsFrozen(th) ==
    /\ epc[th] = "start"
    /\ epc' = [epc EXCEPT ![th] = IF ext.frozen THEN "read" ELSE "get_src"]
    /\ UNCHANGED << esrc, ehash, ext, ecalls, epanic, elock, eloc, ewrites, ewriter,
                    svars, hvars, pvars, lvars, cvars, gvars, nvars, kvars, mvars >>

\* `let src = get_src(); let src = src.and_then(..)`
EGetSrc(th) ==
    /\ epc[th] = "get_src"
    /\ \E got \in Callbacks :
         eloc' = [eloc EXCEPT ![th] = [invoked |-> TRUE, got |-> got,
                                       src |-> checked_src(ehash, got),
                                       returned |-> FALSE, ret |-> FALSE]]
    /\ epc' = [epc EXCEPT ![th] = "try_write"]
    /\ UNCHANGED << esrc, ehash, ext, ecalls, epanic, elock, ewrites, ewriter,
                    svars, hvars, pvars, lvars, cvars, gvars, nvars, kvars, mvars >>

\* `self.external_src.try_write()`: waits for the write lock and gives no
\* guard when the cell is frozen, so that map() does nothing
ETryWrite(th) ==
    /\ epc[th] = "try_write"
    /\ elock = 0
    /\ IF ext.frozen
       THEN epc' = [epc EXCEPT ![th] = "read"] /\ elock' = elock
       ELSE epc' = [epc EXCEPT ![th] = "guarded"] /\ elock' = th
    /\ UNCHANGED << esrc, ehash, ext, ecalls, epanic, eloc, ewrites, ewriter,
                    svars, hvars, pvars, lvars, cvars, gvars, nvars, kvars, mvars >>

\* the body of the closure under the guard: `*src_kind = ..`, or the panic,
\* which drops the guard
EWrite(th) ==
    /\ epc[th] = "guarded"
    /\ IF ext.data = AbsentOk
       THEN /\ ext' = [ext EXCEPT !.data = src_kind_for(eloc[th].src)]
            /\ ewrites' = ewrites + 1
            /\ ewriter' = th
            /\ epc' = [epc EXCEPT ![th] = "freeze"]
            /\ UNCHANGED << epanic, elock >>
       ELSE /\ epanic' = "unexpected state"
            /\ elock' = 0
            /\ epc' = [epc EXCEPT ![th] = "panicked"]
            /\ UNCHANGED << ext, ewrites, ewriter >>
    /\ UNCHANGED << esrc, ehash, ecalls, eloc, svars, hvars, pvars, lvars, cvars, gvars, nvars, kvars, mvars >>

\* EFreeze that drops the guard without freezing
EFreezeDropOnly(th) ==
    /\ epc[th] = "freeze"
    /\ ext' = ext
    /\ elock' = 0
    /\ epc' = [epc EXCEPT ![th] = "read"]
    /\ UNCHANGED << esrc, ehash, ecalls, epanic, eloc, ewrites, ewriter,
                    svars, hvars, pvars, lvars, cvars, gvars, nvars, kvars, mvars >>

\* `FreezeWriteGuard::freeze(external_src)`: the cell is frozen and the guard
\* dropped
EFreeze(th) ==
    /\ epc[th] = "freeze"
    /\ ext' = [ext EXCEPT !.frozen = TRUE]
    /\ elock' = 0
    /\ epc' = [epc EXCEPT ![th] = "read"]
    /\ UNCHANGED << esrc, ehash, ecalls, epanic, eloc, ewrites, ewriter,
                    svars, hvars, pvars, lvars, cvars, gvars, nvars, kvars, mvars >>

\* `self.src.is_some() || self.external_src.read().get_source().is_some()`:
\* read() of a cell that is not frozen waits for a writer to drop its guard
ERead(th) ==
    /\ epc[th] = "read"
    /\ ext.frozen \/ elock = 0
    /\ eloc' = [eloc EXCEPT ![th].returned = TRUE,
                            ![th].ret = esrc.some \/ get_source(ext.data).some]
    /\ epc' = [epc EXCEPT ![th] = "done"]
    /\ UNCHANGED << esrc, ehash, ext, ecalls, epanic, elock, ewrites, ewriter,
                    svars, hvars, pvars, lvars, cvars, gvars, nvars, kvars, mvars >>

ExtConcNext ==
    \E th \in Threads :
        EIsFrozen(th) \/ EGetSrc(th) \/ ETryWrite(th) \/ EWrite(th) \/ EFreeze(th) \/ ERead(th)

ExtConcSpec == ExtConcInit /\ [][ExtConcNext]_vars

(* ------------------------- session globals ---------------------------- *)
\* the frame of a closure passed to one of the session functions: whether
\* SESSION_GLOBALS.set installed globals for it and the value it saved, the
\* globals the closure runs under, and the source map set_source_map put in
Frame(fn, installs, prev, g, sm) ==
    [fn |-> fn, installs |-> installs, prev |-> prev, g |-> g, sm |-> sm]

SessionInit ==
    /\ GlobIdle
    /\ SpanIdle
    /\ MacroIdle
    /\ PosIdle
    /\ NormIdle
    /\ HashIdle
    /\ PackIdle
    /\ LineIdle
    /\ ConcIdle
    /\ ExtIdle

\* the assertion of the two establishing functions fails
Overwritten ==
    /\ gset # 0
    /\ gfails < MaxFails
    /\ gpanic' = "SESSION_GLOBALS should never be overwritten"
    /\ gfails' = gfails + 1
    /\ UNCHANGED << gset, gmap, gstack, gmade >>

\* SESSION_GLOBALS.set(&session_globals, f) for globals g, then f starts
Establish(fn, g) ==
    /\ gset' = g
    /\ gstack' = Append(gstack, Frame(fn, TRUE, gset, g, 0))
    /\ UNCHANGED << gpanic, gfails >>

\* create_session_globals_then that installs over what is installed
CreateSessionGlobalsThenShadowing ==
    /\ gpanic = "none"
    /\ Len(gstack) < MaxDepth
    /\ gmade < MaxGlobals
    /\ gmade' = gmade + 1
    /\ gmap' = [gmap EXCEPT ![gmade + 1] = 0]
    /\ Establish("create_session_globals_then", gmade + 1)
    /\ UNCHANGED << svars, hvars, pvars, lvars, cvars, evars, nvars, kvars, mvars >>

CreateSessionGlobalsThen ==
    /\ gpanic = "none"
    /\ Len(gstack) < MaxDepth
    /\ IF gset # 0
       THEN Overwritten
       ELSE /\ gmade < MaxGlobals
            /\ gmade' = gmade + 1
            /\ gmap' = [gmap EXCEPT ![gmade + 1] = 0]
            /\ Establish("create_session_globals_then", gmade + 1)
    /\ UNCHANGED << svars, hvars, pvars, lvars, cvars, evars, nvars, kvars, mvars >>

SetSessionGlobalsThen ==
    /\ gpanic = "none"
    /\ Len(gstack) < MaxDepth
    /\ \E g \in 1..gmade :
         IF gset # 0
         THEN Overwritten
         ELSE /\ Establish("set_session_globals_then", g)
              /\ UNCHANGED << gmap, gmade >>
    /\ UNCHANGED << svars, hvars, pvars, lvars, cvars, evars, nvars, kvars, mvars >>

CreateSessionIfNotSetThen ==
    /\ gpanic = "none"
    /\ Len(gstack) < MaxDepth
    /\ IF gset = 0
       THEN /\ gmade < MaxGlobals
            /\ gmade' = gmade + 1
            /\ gmap' = [gmap EXCEPT ![gmade + 1] = 0]
            /\ Establish("create_session_if_not_set_then", gmade + 1)
       ELSE /\ gstack' = Append(gstack,
                           Frame("create_session_if_not_set_then", FALSE, gset, gset, 0))
            /\ UNCHANGED << gset, gmap, gmade, gpanic, gfails >>
    /\ UNCHANGED << svars, hvars, pvars, lvars, cvars, evars, nvars, kvars, mvars >>

\* set_source_map: with_session_globals panics when no globals are set;
\* otherwise the field is overwritten and f starts under the drop guard
SetSourceMap ==
    /\ gpanic = "none"
    /\ Len(gstack) < MaxDepth
    /\ \E sm \in 1..MaxMaps :
         IF gset = 0
         THEN /\ gfails < MaxFails
              /\ gpanic' = "cannot access a scoped thread local variable"
              /\ gfails' = gfails + 1
              /\ UNCHANGED << gset, gmap, gstack, gmade >>
         ELSE /\ gmap' = [gmap EXCEPT ![gset] = sm]
              /\ gstack' = Append(gstack, Frame("set_source_map", FALSE, gset, gset, sm))
              /\ UNCHANGED << gset, gmade, gpanic, gfails >>
    /\ UNCHANGED << svars, hvars, pvars, lvars, cvars, evars, nvars, kvars, mvars >>

\* the innermost closure is left: SESSION_GLOBALS.set puts back the value it
\* saved, ClearSourceMap::drop takes the source map out of the globals
Leave ==
    LET top == gstack[Len(gstack)]
    IN  /\ gstack' = SubSeq(gstack, 1, Len(gstack) - 1)
        /\ gset' = IF top.installs THEN top.prev ELSE gset
        /\ gmap' = IF top.fn = "set_source_map" THEN [gmap EXCEPT ![gset] = 0] ELSE gmap

\* the innermost closure returns
Return ==
    /\ gpanic = "none"
    /\ Len(gstack) > 0
    /\ Leave
    /\ UNCHANGED << gmade, gpanic, gfails >>
    /\ UNCHANGED << svars, hvars, pvars, lvars, cvars, evars, nvars, kvars, mvars >>

\* the panic unwinds through the innermost closure
Unwind ==
    /\ gpanic # "none"
    /\ Len(gstack) > 0
    /\ Leave
    /\ UNCHANGED << gmade, gpanic, gfails >>
    /\ UNCHANGED << svars, hvars, pvars, lvars, cvars, evars, nvars, kvars, mvars >>

\* the panic is caught, by the closure it has reached or by the thread
Catch ==
    /\ gpanic # "none"
    /\ gpanic' = "none"
    /\ UNCHANGED << gset, gmap, gstack, gmade, gfails >>
    /\ UNCHANGED << svars, hvars, pvars, lvars, cvars, evars, nvars, kvars, mvars >>

SessionNext ==
    \/ CreateSessionGlobalsThen
    \/ SetSessionGlobalsThen
    \/ CreateSessionIfNotSetThen
    \/ SetSourceMap
    \/ Return
    \/ Unwind
    \/ Catch

SessionSpec == SessionInit /\ [][SessionNext]_vars

(* ------------------ normalizing the text of a SourceFile --------------- *)
RECURSIVE TextsOfLen(_)
TextsOfLen(n) ==
    IF n = 0 THEN {<< >>}
    ELSE {<< b >> \o t : b \in {13, 10, 97}, t \in TextsOfLen(n - 1)}

\* a text of 40 bytes whose only `\r\n` has its `\r` at offset 10
Text40 == [i \in 1..40 |-> IF i = 11 THEN 13 ELSE IF i = 12 THEN 10 ELSE 97]

ShortTexts == UNION {TextsOfLen(n) : n \in 0..MaxTextLen}

RawTexts == ShortTexts \cup {BOM \o t : t \in ShortTexts} \cup {Text40}

AllOther ==
    /\ SpanIdle
    /\ MacroIdle
    /\ PosIdle
    /\ HashIdle
    /\ PackIdle
    /\ LineIdle
    /\ ConcIdle
    /\ ExtIdle
    /\ GlobIdle

NormInit ==
    /\ ntext \in RawTexts
    /\ nfile = NoFile
    /\ nret = NoQuery
    /\ nagain = NoAgain
    /\ AllOther

\* SourceFile::new: the source fields of the file that is returned
NewSourceFile ==
    /\ ~nfile.made
    /\ LET n == normalize_src_in_place(ntext)
       IN  nfile' = [made |-> TRUE, src |-> n.src, start_pos |-> 0,
                     source_len |-> Len(n.src), normalized_pos |-> n.normalized_pos]
    /\ UNCHANGED << ntext, nret, nagain >>
    /\ UNCHANGED << svars, hvars, pvars, lvars, cvars, evars, gvars, kvars, mvars >>

\* the source map gives the file its place after the files before it
AssignStartPos ==
    /\ nfile.made
    /\ nfile.start_pos = 0
    /\ nret = NoQuery
    /\ \E start_pos \in 1..MaxStart : nfile' = [nfile EXCEPT !.start_pos = start_pos]
    /\ UNCHANGED << ntext, nret, nagain >>
    /\ UNCHANGED << svars, hvars, pvars, lvars, cvars, evars, gvars, kvars, mvars >>

OriginalRelativeBytePos ==
    /\ nfile.made
    /\ \E pos \in nfile.start_pos..(nfile.start_pos + nfile.source_len) :
         nret' = [fn |-> "original_relative_byte_pos", arg |-> pos,
                  out |-> original_relative_byte_pos(nfile, pos)]
    /\ UNCHANGED << ntext, nfile, nagain >>
    /\ UNCHANGED << svars, hvars, pvars, lvars, cvars, evars, gvars, kvars, mvars >>

NormalizedBytePos ==
    /\ nfile.made
    /\ \E offset \in 0..Len(ntext) :
         nret' = [fn |-> "normalized_byte_pos", arg |-> offset,
                  out |-> normalized_byte_pos(nfile, offset)]
    /\ UNCHANGED << ntext, nfile, nagain >>
    /\ UNCHANGED << svars, hvars, pvars, lvars, cvars, evars, gvars, kvars, mvars >>

\* normalize_newlines applied to a text that it has produced
NormalizeNewlinesAgain ==
    /\ nfile.made
    /\ ~nagain.done
    /\ LET n == normalize_newlines_in_place(nfile.src, << >>)
       IN  nagain' = [done |-> TRUE, src |-> n.src, normalized_pos |-> n.normalized_pos]
    /\ UNCHANGED << ntext, nfile, nret >>
    /\ UNCHANGED << svars, hvars, pvars, lvars, cvars, evars, gvars, kvars, mvars >>

NormNext ==
    \/ NewSourceFile
    \/ AssignStartPos
    \/ OriginalRelativeBytePos
    \/ NormalizedBytePos
    \/ NormalizeNewlinesAgain

NormSpec == NormInit /\ [][NormNext]_vars

(* ------------------- looking up lines and columns ---------------------- *)
\* a letter, a newline, a tab, a two-byte letter, a wide character and a
\* zero-width character
CharKinds ==
    { Char(1, 1, FALSE), Char(1, 1, TRUE), Char(1, 4, FALSE),
      Char(2, 1, FALSE), Char(3, 2, FALSE), Char(3, 0, FALSE) }

RECURSIVE CharsOfLen(_)
CharsOfLen(n) ==
    IF n = 0 THEN {<< >>}
    ELSE {Append(t, c) : t \in CharsOfLen(n - 1), c \in CharKinds}

\* the file SourceFile::new makes of a text
FileOfText(chars) ==
    LET a == analyze_source_file(chars)
    IN  [chars |-> chars, start_pos |-> 0,
         source_len |-> offset_of(chars, Len(chars) + 1),
         lines |-> a.lines, multibyte_chars |-> a.multibyte_chars,
         non_narrow_chars |-> a.non_narrow_chars]

\* a file of letters only, decoded with the given line table
FileOfTable(lines, source_len) ==
    [chars |-> [i \in 1..source_len |-> Char(1, 1, FALSE)], start_pos |-> 0,
     source_len |-> source_len, lines |-> lines,
     multibyte_chars |-> << >>, non_narrow_chars |-> << >>]

\* line tables in increasing order that start at 0 and stay within len
RECURSIVE SortedTables(_, _)
SortedTables(n, len) ==
    IF n = 1 THEN {<< 0 >>}
    ELSE {t \in {Append(u, x) : u \in SortedTables(n - 1, len), x \in 0..len} :
             t[n - 1] <= t[n]}

PosFiles ==
    {FileOfText(chars) : chars \in UNION {CharsOfLen(n) : n \in 0..MaxChars}}
    \cup {[FileOfText(chars) EXCEPT !.lines = << >>] :
              chars \in UNION {CharsOfLen(n) : n \in 1..MaxChars}}
    \cup UNION {{FileOfTable(t, len) : t \in UNION {SortedTables(n, len) : n \in 1..MaxLines}} :
                 len \in 0..MaxTableLen}
    \cup {FileOfTable(<< 0, 5, 12, 12 >>, 15)}

PosInit ==
    /\ \E f \in PosFiles, start_pos \in 0..MaxStart :
         kfile = [f EXCEPT !.start_pos = start_pos]
    /\ kret = NoLookup
    /\ SpanIdle
    /\ MacroIdle
    /\ HashIdle
    /\ PackIdle
    /\ LineIdle
    /\ ConcIdle
    /\ ExtIdle
    /\ GlobIdle
    /\ NormIdle

PosLookupLine ==
    /\ \E pos \in 0..(kfile.source_len + 1) :
         kret' = [NoLookup EXCEPT !.fn = "lookup_line", !.pos = pos,
                                  !.line = lookup_line(kfile.lines, pos)]
    /\ UNCHANGED kfile
    /\ UNCHANGED << svars, hvars, pvars, lvars, cvars, evars, gvars, nvars, mvars >>

PosLineBounds ==
    /\ \E line_index \in 0..Len(kfile.lines) :
         LET r == line_bounds(kfile, line_index)
         IN  kret' = [NoLookup EXCEPT !.fn = "line_bounds", !.line = line_index,
                                      !.lo = r.lo, !.hi = r.hi, !.panic = r.panic]
    /\ UNCHANGED kfile
    /\ UNCHANGED << svars, hvars, pvars, lvars, cvars, evars, gvars, nvars, mvars >>

PosLookupFilePosWithColDisplay ==
    /\ \E pos \in kfile.start_pos..(kfile.start_pos + kfile.source_len) :
         LET r == lookup_file_pos_with_col_display(kfile, pos)
         IN  kret' = [NoLookup EXCEPT !.fn = "lookup_file_pos_with_col_display",
                                      !.pos = pos, !.line = r.line, !.col = r.col,
                                      !.col_display = r.col_display, !.panic = r.panic]
    /\ UNCHANGED kfile
    /\ UNCHANGED << svars, hvars, pvars, lvars, cvars, evars, gvars, nvars, mvars >>

PosNext ==
    \/ PosLookupLine
    \/ PosLineBounds
    \/ PosLookupFilePosWithColDisplay

PosSpec == PosInit /\ [][PosNext]_vars

(* ---------------------- walking a macro backtrace ---------------------- *)
SiteSpans(ctxts) ==
    {sp \in Spans : sp.hi <= MaxSite /\ sp.ctxt \in ctxts /\ sp.parent = None}

\* the expansions of a session: the call site of an expansion lies in a
\* context that was made before it, so every chain of call sites ends at root
ExpnTables ==
    {t \in [1..MaxCtxt -> SiteSpans(0..MaxCtxt)] : \A c \in 1..MaxCtxt : t[c].ctxt < c}

\* span.macro_backtrace() has been called and nothing has been taken from it
MacroInit ==
    /\ mexpn \in ExpnTables
    /\ mself \in SiteSpans(0..MaxCtxt)
    /\ mprev = DUMMY_SP
    /\ myield = << >>
    /\ mdone = FALSE
    /\ SpanIdle
    /\ HashIdle
    /\ PackIdle
    /\ LineIdle
    /\ ConcIdle
    /\ ExtIdle
    /\ GlobIdle
    /\ NormIdle
    /\ PosIdle

\* Iterator::next on the iterator macro_backtrace returned
MacroBacktraceNext ==
    /\ ~mdone
    /\ LET r == macro_backtrace_next(mexpn, mself, mprev)
       IN  /\ mself' = r.span
           /\ mprev' = r.prev_span
           /\ myield' = myield \o r.item
           /\ mdone' = (r.item = << >>)
    /\ UNCHANGED mexpn
    /\ UNCHANGED << svars, hvars, pvars, lvars, cvars, evars, gvars, nvars, kvars >>

MacroNext == MacroBacktraceNext

\* the consumer of the iterator keeps calling next until it gets None
MacroSpec == MacroInit /\ [][MacroNext]_vars /\ WF_vars(MacroNext)

(* ------------------------------ properties ----------------------------- *)
\* exactly one of the two contexts is the root context
OneRoot(x, y) == x.ctxt # y.ctxt /\ (is_root(x.ctxt) \/ is_root(y.ctxt))

\* C1: for spans of equal syntax context, self.to(end) contains self and
\* contains end: its lo is the smaller lo and its hi the larger hi.
C1_ToEnclosesBoth ==
    (op = "to" /\ self.ctxt = end.ctxt) =>
        /\ contains(ret.span, self)
        /\ contains(ret.span, end)
        /\ ret.span.lo = min(self.lo, end.lo)
        /\ ret.span.hi = max(self.hi, end.hi)

\* C1 witness: two disjoint spans of one context have been merged
C1_Witness ==
    /\ op = "to"
    /\ self.ctxt = end.ctxt
    /\ self.hi < end.lo
    /\ ret.span.lo = self.lo
    /\ ret.span.hi = end.hi

\* C2: self.to(end) and end.to(self) are the same span (lo, hi, ctxt and
\* parent), whatever the contexts and parents of the operands.
C2_ToCommutes == op = "to" => ret.span = to(end, self)

\* C3: self.to(end) is the non-root operand unchanged when the contexts
\* differ and exactly one is root; otherwise it is [min lo, max hi] with
\* self's context and with the operands' parent when they agree, else None.
C3_ToTieBreak ==
    op = "to" =>
        IF OneRoot(self, end)
        THEN ret.span = (IF is_root(self.ctxt) THEN end ELSE self)
        ELSE /\ ret.span.lo = min(self.lo, end.lo)
             /\ ret.span.hi = max(self.hi, end.hi)
             /\ ret.span.ctxt = self.ctxt
             /\ ret.span.parent = (IF self.parent = end.parent THEN self.parent ELSE None)

\* C3 witness: two spans from different macro contexts and with different
\* parents have been merged
C3_Witness ==
    /\ op = "to"
    /\ ~ is_root(self.ctxt)
    /\ ~ is_root(end.ctxt)
    /\ self.ctxt # end.ctxt
    /\ self.parent # None
    /\ end.parent # None
    /\ self.parent # end.parent
    /\ ret.span.parent = None
    /\ ret.span.ctxt = self.ctxt

\* C4: when self ends before end starts, self.between(end) is the gap from
\* self.hi to end.lo and its context is the context of self.to(end).
C4_BetweenCtxtLikeTo ==
    (op = "between" /\ self.hi <= end.lo) =>
        /\ ret.span.lo = self.hi
        /\ ret.span.hi = end.lo
        /\ ret.span.ctxt = to(self, end).ctxt

\* C5 as stated: when self.lo <= end.lo, self.until(end) runs from self.lo
\* to end.lo whatever the contexts.
C5_UntilAnyCtxt ==
    (op = "until" /\ self.lo <= end.lo) =>
        /\ ret.span.lo = self.lo
        /\ ret.span.hi = end.lo

\* C5 amended: when self.lo <= end.lo and the contexts are equal or both
\* non-root, self.until(end) runs from self.lo to end.lo; when the contexts
\* differ and exactly one is root, it is the non-root operand unchanged.
C5_UntilTieBreak ==
    (op = "until" /\ self.lo <= end.lo) =>
        IF OneRoot(self, end)
        THEN ret.span = (IF is_root(self.ctxt) THEN end ELSE self)
        ELSE /\ ret.span.lo = self.lo
             /\ ret.span.hi = end.lo

\* C5 witness: until has cut a span short of the start of a span of another
\* macro context
C5_Witness ==
    /\ op = "until"
    /\ self.lo < end.lo
    /\ end.lo < self.hi
    /\ end.lo < end.hi
    /\ ~ OneRoot(self, end)
    /\ self.ctxt # end.ctxt
    /\ ret.span.lo = self.lo
    /\ ret.span.hi = end.lo

\* C6: split_at(self, pos) with 0 <= pos <= len returns [lo, lo+pos) and
\* [lo+pos, hi), both with self's context and parent, and merging the
\* halves with `to` gives back self exactly.
C6_SplitThenToIsSelf ==
    op = "split_at" =>
        /\ ret.span = [lo |-> self.lo, hi |-> self.lo + ret.pos,
                       ctxt |-> self.ctxt, parent |-> self.parent]
        /\ ret.span2 = [lo |-> self.lo + ret.pos, hi |-> self.hi,
                        ctxt |-> self.ctxt, parent |-> self.parent]
        /\ to(ret.span, ret.span2) = self

\* C6 witness: a span of a macro context with a parent has been split
\* strictly inside
C6_Witness ==
    /\ op = "split_at"
    /\ ret.pos > 0
    /\ self.lo + ret.pos < self.hi
    /\ ~ is_root(self.ctxt)
    /\ self.parent # None
    /\ ret.span.hi = ret.span2.lo

\* C7: overlaps is symmetric, a span contains itself, and both predicates
\* are functions of the lo/hi positions alone.
C7_ContainsOverlaps ==
    /\ op = "overlaps" =>
          /\ ret.bool = overlaps(end, self)
          /\ ret.bool = (self.lo < end.hi /\ end.lo < self.hi)
    /\ op = "contains" =>
          /\ ret.bool = (self.lo <= end.lo /\ end.hi <= self.hi)
          /\ (self.lo = end.lo /\ self.hi = end.hi) => ret.bool

\* C7 witness: overlaps has answered for two spans that touch without
\* overlapping and differ in context and parent
C7_Witness ==
    /\ op = "overlaps"
    /\ self.hi = end.lo
    /\ self.lo < self.hi
    /\ end.lo < end.hi
    /\ self.ctxt # end.ctxt
    /\ self.parent # end.parent
    /\ ~ ret.bool

\* C8: the order on spans is the lexicographic order of (lo, hi, ctxt);
\* spans that differ only in parent compare Equal although they are not ==.
C8_OrdIgnoresParent ==
    op = "cmp" =>
        /\ (ret.ord = "Less") =
              \/ self.lo < end.lo
              \/ self.lo = end.lo /\ self.hi < end.hi
              \/ self.lo = end.lo /\ self.hi = end.hi /\ self.ctxt < end.ctxt
        /\ (ret.ord = "Equal") =
              (self.lo = end.lo /\ self.hi = end.hi /\ self.ctxt = end.ctxt)
        /\ ret.ord \in {"Less", "Equal", "Greater"}
        /\ ret.bool = (self = end)
        /\ (ret.ord = "Equal" /\ self.parent # end.parent) => ~ ret.bool

\* C8 witness: two spans that differ only in parent have been compared
C8_Witness ==
    /\ op = "cmp"
    /\ self.lo = end.lo
    /\ self.hi = end.hi
    /\ self.ctxt = end.ctxt
    /\ self.parent # end.parent
    /\ ret.ord = "Equal"
    /\ ~ ret.bool

\* C9: hashing a span, loading its file at another start_pos (the span and
\* its parent definition's span moving with it) and hashing it again feeds
\* the hasher the same values, for every span of the file.
C9_HashIgnoresLayout == Len(hashed) = 2 => hashed[1] = hashed[2]

\* C10: the packed word is (col_lo mod 2^8) + (line_lo mod 2^24)*2^8 +
\* (col_hi mod 2^8)*2^32 + (line_hi mod 2^24)*2^40, as little-endian bytes.
C10_PackedWord ==
    packed # << >> =>
        packed = << linecol[1] % 256 >> \o to_bytes(linecol[2], 3)
                 \o << linecol[3] % 256 >> \o to_bytes(linecol[4], 3)

\* the values fed by the latest hash_stable call, made in the current layout
LastHashed == hashed[2]

\* the kinds of the values of a stream, in order
Kinds(stream) == [i \in 1..Len(stream) |-> stream[i].kind]

\* the file contains the parent definition's span and that span contains hspan
ParentContains == hspan.parent # None /\ contains(def_span(file, hspan.parent), hspan)

\* C11: with span hashing on, a non-dummy span whose parent is set and whose
\* parent definition's span contains it feeds exactly ctxt, parent, the
\* relative tag, lo - def.lo and hi - def.lo (neither below zero) and no
\* value from the source map; a non-dummy span without such a parent is
\* hashed through source-map resolution (valid or invalid tag).
C11_RelativeBranch ==
    (Len(hashed) = 2 /\ hash_spans /\ ~ is_dummy(hspan)) =>
        IF ParentContains
        THEN /\ Kinds(LastHashed) = << "ctxt", "parent", "tag", "u32", "u32" >>
             /\ LastHashed[1].val = hspan.ctxt
             /\ LastHashed[2].val = hspan.parent
             /\ LastHashed[3].val = TAG_RELATIVE_SPAN
             /\ LastHashed[4].val = hspan.lo - def_span(file, hspan.parent).lo
             /\ LastHashed[5].val = hspan.hi - def_span(file, hspan.parent).lo
             /\ LastHashed[4].val >= 0
             /\ LastHashed[5].val >= LastHashed[4].val
        ELSE IF span_data_to_lines_and_cols(file, hspan) = << >>
        THEN /\ Kinds(LastHashed) = << "ctxt", "parent", "tag" >>
             /\ LastHashed[3].val = TAG_INVALID_SPAN
        ELSE /\ Kinds(LastHashed) = << "ctxt", "parent", "tag", "stable_id", "col_line", "len" >>
             /\ LastHashed[3].val = TAG_VALID_SPAN
             /\ LastHashed[4].val = file.stable_id
             /\ LastHashed[6].val = hspan.hi - hspan.lo

\* C11 witness: a span that starts after the start of its parent definition,
\* in a file that does not start at 0, has been hashed relative to it
C11_Witness ==
    /\ Len(hashed) = 2
    /\ hash_spans
    /\ file.start_pos > 0
    /\ ParentContains
    /\ hspan.lo > def_span(file, hspan.parent).lo
    /\ hspan.hi > hspan.lo
    /\ LastHashed[3].val = TAG_RELATIVE_SPAN
    /\ LastHashed[4].val < hspan.lo

\* the non-dummy spans of the model whose source-map resolution fails and
\* that are not hashed relative to a parent
FailingSpans ==
    {s \in {shifted(rel, file.start_pos) : rel \in RelSpans} :
        /\ ~ is_dummy(s)
        /\ ~ (s.parent # None /\ contains(def_span(file, s.parent), s))
        /\ span_data_to_lines_and_cols(file, s) = << >>}

\* the tag that hash_stable feeds for span s in the current layout
TagOf(s) == hash_stable(file, TRUE, s)[3].val

\* C12 as stated: a dummy span feeds only ctxt, parent and one tag, and that
\* tag differs from the tag of a non-dummy span whose resolution fails and
\* from the relative and valid tags.
C12_DummyTagDistinct ==
    (Len(hashed) = 2 /\ hash_spans /\ is_dummy(hspan)) =>
        /\ Kinds(LastHashed) = << "ctxt", "parent", "tag" >>
        /\ LastHashed[3].val \notin {TAG_RELATIVE_SPAN, TAG_VALID_SPAN}
        /\ \A s \in FailingSpans : TagOf(s) # LastHashed[3].val

\* C12 amended: a dummy span feeds only ctxt, parent and one tag, never a
\* position; the tag is TAG_INVALID_SPAN, which differs from the relative and
\* valid tags and is the tag of a non-dummy span whose resolution fails.
C12_DummyTagInvalid ==
    (Len(hashed) = 2 /\ hash_spans /\ is_dummy(hspan)) =>
        /\ Kinds(LastHashed) = << "ctxt", "parent", "tag" >>
        /\ LastHashed[1].val = hspan.ctxt
        /\ LastHashed[2].val = hspan.parent
        /\ LastHashed[3].val = TAG_INVALID_SPAN
        /\ LastHashed[3].val \notin {TAG_RELATIVE_SPAN, TAG_VALID_SPAN}
        /\ \A s \in FailingSpans : TagOf(s) = LastHashed[3].val

\* C12 witness: a dummy span of a macro context, with a parent whose span
\* contains it, has been hashed while a span of the file fails to resolve
C12_Witness ==
    /\ Len(hashed) = 2
    /\ hash_spans
    /\ is_dummy(hspan)
    /\ ~ is_root(hspan.ctxt)
    /\ ParentContains
    /\ FailingSpans # {}
    /\ Len(LastHashed) = 3

\* C13: encoding a span writes exactly two u32 values, lo then hi; decoding
\* them gives the same lo and hi with the root context and no parent, so the
\* round trip returns the span itself exactly when it has the root context
\* and no parent.
C13_SpanRoundTrip ==
    /\ op \in {"encode", "decode"} => ret.enc = << self.lo, self.hi >>
    /\ op = "decode" =>
          /\ ret.span = [lo |-> self.lo, hi |-> self.hi, ctxt |-> root, parent |-> None]
          /\ (ret.span = self) = (is_root(self.ctxt) /\ self.parent = None)

\* C13 witness: a non-empty span of a macro context with a parent has been
\* encoded and decoded, and came back without them
C13_Witness ==
    /\ op = "decode"
    /\ self.lo < self.hi
    /\ ~ is_root(self.ctxt)
    /\ self.parent # None
    /\ ret.span # self
    /\ is_root(ret.span.ctxt)

\* C14: a line table held in diff-list form (bytes_per_diff 1, 2 or 4) that
\* is decoded to line offsets and encoded again gives the bytes it was
\* decoded from: the same line count, bytes_per_diff and raw diffs.
C14_DiffsRoundTrip ==
    (gen > 0 /\ meta # NoMeta /\ origin[1] > 0) =>
        /\ origin[2] \in {1, 2, 4}
        /\ meta[1] = origin[1]
        /\ meta[2] = origin[2]
        /\ SubSeq(meta, 3, Len(meta)) = SubSeq(origin, 3, Len(origin))
        /\ Len(meta) = Len(origin)

\* C14 witness: a table of three lines with two-byte diffs has been decoded,
\* converted to lines and encoded again
C14_Witness ==
    /\ gen > 0
    /\ meta # NoMeta
    /\ origin[1] = 3
    /\ origin[2] = 2
    /\ origin[4] # 0
    /\ lt.frozen
    /\ is_lines(lt.data)

\* the value of the bytes of d from index a, `width` bytes, little-endian
LEValue(d, a, width) ==
    d[a] + (IF width >= 2 THEN 256 * d[a + 1] ELSE 0)
         + (IF width = 4 THEN 65536 * d[a + 2] + 16777216 * d[a + 3] ELSE 0)

\* the line table that the latest encode has written
Encoded == lt.data.lines

\* the gaps between consecutive line starts of the encoded table
Gaps == {Encoded[i + 1] - Encoded[i] : i \in 1..(Len(Encoded) - 1)}

\* C15: the encoder writes the count n and, when n > 0, one byte
\* bytes_per_diff and exactly (n-1)*bytes_per_diff bytes; bytes_per_diff is
\* the smallest of 1, 2, 4 that holds the largest gap (1 when n = 1), every
\* gap is stored little-endian without truncation, and decoding restores the
\* offsets.  When n = 0 only the count is written.
C15_EncodedLineTable ==
    meta # NoMeta =>
        /\ meta[1] = Len(Encoded)
        /\ Len(Encoded) = 0 => meta = << 0 >>
        /\ Len(Encoded) > 0 =>
              /\ meta[2] \in {1, 2, 4}
              /\ (meta[2] = 1) = (\A g \in Gaps : g <= 255)
              /\ (meta[2] = 4) = (\E g \in Gaps : g >= 65536)
              /\ Len(meta) = 2 + (Len(Encoded) - 1) * meta[2]
              /\ \A i \in 3..Len(meta) : meta[i] \in 0..255
              /\ \A i \in 1..(Len(Encoded) - 1) :
                    LEValue(meta, 3 + (i - 1) * meta[2], meta[2]) = Encoded[i + 1] - Encoded[i]
              /\ convert_diffs_to_lines(decode_lines(meta)) = Encoded

\* C15 witness: a table whose largest gap is 0x100 has been encoded with
\* two-byte diffs
C15_Witness ==
    /\ meta # NoMeta
    /\ Len(Encoded) = 3
    /\ Gaps = {1, 256}
    /\ meta[2] = 2
    /\ Len(meta) = 6

\* C16: within the life of one SourceFile the line table goes from Diffs to
\* Lines at most once, in the first lines() call, and is frozen in that step;
\* once frozen it is never written and never goes back to Diffs, and every
\* later lines() call returns the same offsets, the first of which is 0.
C16_FrozenOnce ==
    /\ [](lret.called /\ Len(lret.lines) > 0 => lret.lines[1] = 0)
    /\ [](lret.called => lt.frozen /\ is_lines(lt.data) /\ lt.data.lines = lret.lines)
    /\ [][gen' = gen =>
            /\ lt.frozen => lt' = lt
            /\ is_lines(lt.data) => is_lines(lt'.data)
            /\ (~ is_lines(lt.data) /\ is_lines(lt'.data)) =>
                  (lt'.frozen /\ ~ lret.called /\ lret'.called)
            /\ lret.called => lret' = lret]_vars

\* C16 witness: a decoded file of several lines has been converted by
\* lines() and then encoded, its table still frozen in Lines form
C16_Witness ==
    /\ gen > 0
    /\ lt.frozen
    /\ is_lines(lt.data)
    /\ lret.called
    /\ Len(lret.lines) > 1
    /\ llook # NoLine
    /\ meta # NoMeta

\* C17: under every interleaving of concurrent lines() calls on a file whose
\* table starts in Diffs form, the table is written once and frozen once,
\* every call returns the decoded offsets, a caller that did not get the
\* write guard finds the table frozen in Lines form, and unreachable!() is
\* never reached.
C17_ConcurrentLines ==
    /\ lpanic = "none"
    /\ \A th \in DOMAIN lpc : lpc[th] # "panicked"
    /\ lwrites <= 1
    /\ lfreezes <= 1
    /\ lt.frozen => (is_lines(lt.data) /\ lwrites = 1 /\ lfreezes = 1)
    /\ \A th \in DOMAIN lpc :
          /\ lpc[th] = "recheck" => (lt.frozen /\ is_lines(lt.data))
          /\ lpc[th] = "done" =>
                /\ lout[th].called
                /\ lout[th].lines = convert_diffs_to_lines(decode_lines(origin))
                /\ lwrites = 1
                /\ lfreezes = 1

\* C17 witness: two threads raced for the write guard of a table of several
\* lines; both are past convert_diffs_to_lines_frozen and one write was made
C17_Witness ==
    /\ lwrites = 1
    /\ origin # NoMeta
    /\ origin[1] > 1
    /\ \E t1, t2 \in DOMAIN lpc :
          /\ t1 # t2
          /\ lpc[t1] = "recheck"
          /\ lpc[t2] = "recheck"

\* the calls made on a file that was Foreign/AbsentOk and unfrozen when the
\* first of them started
FirstOnAbsentOk ==
    /\ Len(ecalls) >= 1
    /\ ecalls[1].before = FreezeLock(AbsentOk, FALSE)

\* C18: on a Foreign/AbsentOk file, the callback is invoked in the first
\* add_external_src call only; the state that call leaves is frozen and no
\* later call changes it; a failure is not retried.
C18_FetchedOnce ==
    FirstOnAbsentOk =>
        /\ ecalls[1].invoked
        /\ ecalls[1].after.frozen
        /\ ecalls[1].after.data \in {AbsentErr, Present(ecalls[1].after.data.src)}
        /\ ext = ecalls[1].after
        /\ epanic = "none"
        /\ \A i \in 2..Len(ecalls) :
              /\ ~ecalls[i].invoked
              /\ ecalls[i].before = ecalls[1].after
              /\ ecalls[i].after = ecalls[1].after
              /\ ecalls[i].ret = ecalls[1].ret
              /\ ecalls[1].after.data = AbsentErr => ~ecalls[i].ret

\* C18 witness: the first call failed, and a later call whose callback would
\* have given the matching text left the file in AbsentErr
C18_Witness ==
    /\ FirstOnAbsentOk
    /\ Len(ecalls) >= 2
    /\ ecalls[1].after.data = AbsentErr
    /\ ecalls[2].got.some
    /\ matches(ehash, ecalls[2].got.text)
    /\ ext.data = AbsentErr

\* C19: a call on a Foreign/AbsentOk file sets Present(text) exactly when the
\* callback gave a text whose hash, taken before normalization, equals
\* src_hash, and the stored text is the normalized one; otherwise it sets
\* AbsentErr. Every call returns true exactly when the file has local source
\* or its state is Present.
C19_HashChecked ==
    /\ FirstOnAbsentOk =>
          LET c == ecalls[1]
              hash_ok == c.got.some /\ SourceFileHashNew(ehash.kind, c.got.text) = ehash
          IN  /\ (c.after.data.kind = "Present") <=> hash_ok
              /\ hash_ok => c.after.data = Present(normalize_src(c.got.text))
              /\ ~hash_ok => c.after.data = AbsentErr
    /\ \A i \in 1..Len(ecalls) :
          ecalls[i].ret <=>
              (esrc.some \/ (ecalls[i].after.data.tag = "Foreign"
                             /\ ecalls[i].after.data.kind = "Present"))
    /\ (ext.data.tag = "Foreign" /\ ext.data.kind = "Present") =>
          \E t \in TextSamples :
              /\ SourceFileHashNew(ehash.kind, t) = ehash
              /\ ext.data.src = normalize_src(t)

\* C19 witness: the callback's text matched the hash and was changed by the
\* normalization before it was stored, and the call returned true
C19_Witness ==
    /\ FirstOnAbsentOk
    /\ ecalls[1].got.some
    /\ ext.data.tag = "Foreign"
    /\ ext.data.kind = "Present"
    /\ ext.data.src # ecalls[1].got.text
    /\ ecalls[1].ret

\* C20: under every interleaving of concurrent add_external_src calls on one
\* Foreign/AbsentOk file, the state is written at most once and by the first
\* thread to take the write guard; no other thread changes it or panics; and
\* every call returns according to the state the writer froze.
C20_ConcurrentFetch ==
    /\ epanic = "none"
    /\ \A th \in DOMAIN epc : epc[th] # "panicked"
    /\ ewrites <= 1
    /\ (ewrites = 0) <=> (ewriter = 0)
    /\ ewrites = 0 => ext = FreezeLock(AbsentOk, FALSE)
    /\ ewrites = 1 => ext.data = src_kind_for(eloc[ewriter].src)
    /\ ext.frozen => ewrites = 1
    /\ \A th \in DOMAIN epc :
          /\ epc[th] \in {"guarded", "freeze"} => elock = th
          /\ epc[th] \in {"guarded", "freeze"} => (ewriter \in {0, th})
          /\ epc[th] \in {"read", "done"} => (ext.frozen /\ ewrites = 1)
          /\ epc[th] = "done" =>
                /\ eloc[th].returned
                /\ eloc[th].ret = eloc[ewriter].src.some
                /\ eloc[th].ret = get_source(ext.data).some

\* C20 witness: both callbacks ran; the writer's callback gave nothing and
\* the other thread's gave the matching text, which was discarded: both calls
\* have returned false and the state is AbsentErr
C20_Witness ==
    /\ ewrites = 1
    /\ ext = FreezeLock(AbsentErr, TRUE)
    /\ \E w, o \in DOMAIN epc :
          /\ w # o
          /\ ewriter = w
          /\ epc[w] = "done"
          /\ epc[o] = "done"
          /\ eloc[o].invoked
          /\ eloc[o].src.some
          /\ ~eloc[w].ret
          /\ ~eloc[o].ret

\* the frames whose closure SESSION_GLOBALS.set is running
Installing == {i \in 1..Len(gstack) : gstack[i].installs}

\* C21: on one thread at most one SessionGlobals is installed at a time: an
\* establishing call made while one is installed fails by assertion and
\* changes nothing, create_session_if_not_set_then runs its closure under the
\* installed one, and the globals are uninstalled when the establishing
\* closure is left.
C21_OneSessionGlobals ==
    /\ [](Cardinality(Installing) <= 1)
    /\ []((gset # 0) <=> (Installing # {}))
    /\ [](\A i \in 1..Len(gstack) : gstack[i].g = gset)
    /\ [](\A i \in Installing : gstack[i].prev = 0 /\ i = 1)
    /\ [][(gfails' = gfails + 1 /\ gset # 0) =>
            (gset' = gset /\ gstack' = gstack /\ gmade' = gmade)]_vars
    /\ [][(Len(gstack') > Len(gstack) /\ gset # 0) =>
            (gset' = gset /\ gmade' = gmade /\ ~gstack'[Len(gstack')].installs)]_vars
    /\ [][(Len(gstack') < Len(gstack) /\ gstack[Len(gstack)].installs) => gset' = 0]_vars

\* C21 witness: an establishing call failed while globals were installed, the
\* session ended, and a second SessionGlobals is now installed
C21_Witness ==
    /\ gfails >= 1
    /\ gmade >= 2
    /\ gset = 2
    /\ gpanic = "none"
    /\ Installing # {}

\* the frames of the closures passed to set_source_map
MapFrames == {i \in 1..Len(gstack) : gstack[i].fn = "set_source_map"}

\* the source map given to the innermost set_source_map call that is running
InnermostMap == gstack[CHOOSE i \in MapFrames : \A j \in MapFrames : j <= i].sm

\* C28: while the closure of set_source_map(sm, f) runs, also after a nested
\* set_source_map call inside it has returned, the session's source map is
\* sm; once every set_source_map call has returned or unwound, it is None.
C28_SourceMapKept ==
    /\ MapFrames = {} => \A g \in DOMAIN gmap : gmap[g] = 0
    /\ (MapFrames # {} /\ gpanic = "none") => gmap[gset] = InnermostMap

\* C22: for every offset x of the text before normalization, at any
\* start_pos, original_relative_byte_pos(normalized_byte_pos(x)) is x.
C22_OriginalOfNormalized ==
    nret.fn = "normalized_byte_pos" =>
        original_relative_byte_pos(nfile, nret.out) = nret.arg

\* C23: for every position p of the normalized text, at any start_pos,
\* normalized_byte_pos(original_relative_byte_pos(p)) is p.
C23_NormalizedOfOriginal ==
    nret.fn = "original_relative_byte_pos" =>
        normalized_byte_pos(nfile, nret.out) = nret.arg

HasBOM == Len(ntext) >= 3 /\ SubSeq(ntext, 1, 3) = BOM

\* the text after its BOM
Body == IF HasBOM THEN SubSeq(ntext, 4, Len(ntext)) ELSE ntext

\* where in a text a `\r` stands right before a `\n`
PairsOf(text) == {i \in 1..(Len(text) - 1) : text[i] = 13 /\ text[i + 1] = 10}

\* the bytes of Body that are not the `\r` of a pair, in order
KeptIdx == sorted((1..Len(Body)) \ PairsOf(Body))

FoldIdx == sorted(PairsOf(Body))

\* the records of the folds, after the record of the BOM if there is one
FoldRecords ==
    SubSeq(nfile.normalized_pos, (IF HasBOM THEN 2 ELSE 1), Len(nfile.normalized_pos))

HasCrCrLf(text) ==
    \E i \in 1..(Len(text) - 2) : text[i] = 13 /\ text[i + 1] = 13 /\ text[i + 2] = 10

StartsUpTo(pos) == {i \in 0..(Len(kfile.lines) - 1) : kfile.lines[i + 1] <= pos}

\* C25: lookup_line(pos) is the greatest index i with lines[i] <= pos, and
\* None only when the table is empty or pos is before lines[0], so never at
\* position 0 of a file with lines; line_bounds(i) is [lines[i], lines[i+1])
\* in absolute positions, or [lines[i], end of file) for the last line, and
\* contains every pos before the end of the file that lookup_line puts on
\* line i; with lines [0, 5, 12, 12], lookup_line(7) is 1 and line_bounds(1)
\* is 5..12.
C25_LookupLineBounds ==
    /\ kret.fn = "lookup_line" =>
          /\ StartsUpTo(kret.pos) # {} =>
                /\ kret.line \in StartsUpTo(kret.pos)
                /\ \A i \in StartsUpTo(kret.pos) : i <= kret.line
          /\ (kret.line = NoLine) <=>
                (kfile.lines = << >> \/ kret.pos < kfile.lines[1])
          /\ (kfile.lines # << >> /\ kret.pos = 0) => kret.line # NoLine
          /\ (kfile.lines = << 0, 5, 12, 12 >> /\ kret.pos = 7) => kret.line = 1
    /\ kret.fn = "line_bounds" =>
          /\ (kret.panic # "none") <=>
                (kfile.source_len # 0 /\ kret.line >= Len(kfile.lines))
          /\ (kret.panic = "none" /\ kret.line < Len(kfile.lines)) =>
                /\ kret.lo = kfile.start_pos + kfile.lines[kret.line + 1]
                /\ kret.hi = IF kret.line = Len(kfile.lines) - 1
                             THEN kfile.start_pos + kfile.source_len
                             ELSE kfile.start_pos + kfile.lines[kret.line + 2]
                /\ \A pos \in 0..(kfile.source_len - 1) :
                      lookup_line(kfile.lines, pos) = kret.line =>
                          /\ kret.lo <= kfile.start_pos + pos
                          /\ kfile.start_pos + pos < kret.hi
          /\ (kfile.lines = << 0, 5, 12, 12 >> /\ kret.line = 1) =>
                (kret.lo = kfile.start_pos + 5 /\ kret.hi = kfile.start_pos + 12)

\* C25 witness: line_bounds(1) of the file with lines [0, 5, 12, 12] at
\* start_pos 0 has returned 5..12
C25_Witness ==
    /\ kfile.lines = << 0, 5, 12, 12 >>
    /\ kfile.start_pos = 0
    /\ kret.fn = "line_bounds"
    /\ kret.line = 1
    /\ kret.lo = 5
    /\ kret.hi = 12

\* the byte offsets at which a character of kfile starts, and its end
Boundaries == {offset_of(kfile.chars, i) : i \in 1..(Len(kfile.chars) + 1)}

\* the characters of kfile that start in [from_pos, to_pos)
CharsIn(from_pos, to_pos) ==
    {i \in 1..Len(kfile.chars) :
        from_pos <= offset_of(kfile.chars, i) /\ offset_of(kfile.chars, i) < to_pos}

RECURSIVE DisplayWidth(_)
DisplayWidth(S) ==
    IF S = {} THEN 0
    ELSE LET i == CHOOSE x \in S : TRUE
         IN  kfile.chars[i].width + DisplayWidth(S \ {i})

\* C26: for a position on a character boundary,
\* lookup_file_pos_with_col_display gives the line of lookup_line plus one,
\* as col the number of characters from the start of that line to the
\* position, and as col_display the sum of the display widths of those
\* characters, which is col when none of them is non-narrow; when no line
\* contains the position the line is 0 and both columns count from the start
\* of the file.
C26_ColDisplay ==
    (/\ kret.fn = "lookup_file_pos_with_col_display"
     /\ (kret.pos - kfile.start_pos) \in Boundaries) =>
        LET pos == kret.pos - kfile.start_pos
            a == lookup_line(kfile.lines, pos)
            linebpos == IF a = NoLine THEN 0 ELSE kfile.lines[a + 1]
            before == CharsIn(linebpos, pos)
        IN  /\ kret.panic = "none"
            /\ kret.line = (IF a = NoLine THEN 0 ELSE a + 1)
            /\ kret.col = Cardinality(before)
            /\ kret.col_display = DisplayWidth(before)
            /\ (\A i \in before : kfile.chars[i].width = 1) => kret.col_display = kret.col

\* C26 witness: a position on the second line of a file at a start_pos
\* above 0, after a non-narrow character of that line
C26_Witness ==
    /\ kret.fn = "lookup_file_pos_with_col_display"
    /\ kret.panic = "none"
    /\ kfile.start_pos > 0
    /\ kfile.multibyte_chars # << >>
    /\ kret.line = 2
    /\ kret.col >= 1
    /\ kret.col_display # kret.col

\* the iterator has yielded non-root expansions only, from the innermost
\* outwards, and no two in a row whose call sites cover the same bytes
BacktraceFrames ==
    /\ \A i \in 1..Len(myield) : myield[i].expn # 0
    /\ \A i \in 1..(Len(myield) - 1) :
          /\ myield[i].call_site.ctxt = myield[i + 1].expn
             \/ myield[i + 1].expn < myield[i].call_site.ctxt
          /\ ~source_equal(myield[i].call_site, myield[i + 1].call_site)

\* C27: for a span with a finite expansion chain macro_backtrace terminates,
\* yields only non-root expansion records from the innermost outwards, and
\* never yields one after the other two frames whose call_site spans have
\* the same lo and hi.
C27_BacktraceNoRepeats == (<>mdone) /\ []BacktraceFrames

\* C29: whenever a SourceFile is encoded its line table is in Lines form:
\* after any sequence of new, decode, lines(), lookup_line and encode, the
\* assertion self.lines.read().is_lines() at the start of encode has not
\* failed, also for a file that was decoded with a line and encoded again
\* with no line lookup in between.
C29_EncodeInLinesForm == lpanic # "assert is_lines"

====
